---- MODULE Spec2Model ----
(***************************************************************************)
(* Planar two-servo leg linkages (serial, pantograph, five-bar), their     *)
(* workspace scan, the alpha-shape boundary and the centred ellipse fit,   *)
(* and the dashboard that drives them from its sliders.                    *)
(*                                                                         *)
(* Numbers.  The program computes in binary floating point; the model      *)
(* computes in integers.  Lengths and coordinates of the leg geometry are  *)
(* whole millimetres, angles in degrees are whole degrees and angles in    *)
(* radians are counted in steps of pi/360 (half a degree).  A quantity     *)
(* that is not an integer is kept as an exact fraction (numerator,         *)
(* denominator) where its sign or its comparison decides a branch, and is  *)
(* rounded to the grid only where the code hands a coordinate on.  A       *)
(* square root that is compared is compared through its square, and a      *)
(* distance is carried as its square.  Thresholds below the grid (1e-3,    *)
(* 1e-5, 1e-6) separate zero from non-zero on the grid.                    *)
(***************************************************************************)
EXTENDS Integers, Sequences, FiniteSets, TLC

VARIABLES
    ci_in,      \* get_circle_intersection: the arguments p1, r1, p2, r2
    ci_out,     \* get_circle_intersection: the result per chirality
    hull_in,    \* calculate_concave_hull: points, tri.simplices, 1/alpha_threshold
    hull_out,   \* calculate_concave_hull: total area, boundary_edges, lines
    ell_in,     \* calculate_max_centered_ellipse: hull_lines
    ell_out,    \* calculate_max_centered_ellipse: (best_y, best_width, height)
    leg,        \* a LegModel instance: lengths, parameters, offsets, servos
    leg_call,   \* the last call on the LegModel: operation, arguments, result
    dash,       \* the RobotDashboard: models, sliders, stored workspace
    dash_call,  \* the last dashboard handler that returned, and what it found
    dash_events, \* the number of user events handled so far
    seg_in,     \* the segment functions of utils: the points A, B, C, D
    seg_call,   \* the call made on them: function and result
    lim_in,     \* get_scan_limits_at_y: the arguments y, hull_lines
    lim_out     \* get_scan_limits_at_y: the result (limit_left, limit_right)

circle_vars == <<ci_in, ci_out>>
hull_vars == <<hull_in, hull_out>>
ell_vars == <<ell_in, ell_out>>
leg_vars == <<leg, leg_call>>
dash_vars == <<dash, dash_call, dash_events>>
seg_vars == <<seg_in, seg_call>>
lim_vars == <<lim_in, lim_out>>
vars == <<circle_vars, hull_vars, ell_vars, leg_vars, dash_vars, seg_vars, lim_vars>>

(***************************************************************************)
(* Values                                                                  *)
(***************************************************************************)
\* Python's None
None == [none |-> TRUE]
\* a result slot no call has filled yet
Pending == [pending |-> TRUE]
\* a harness that the running specification does not use
Idle == [idle |-> TRUE]

Pt(x, y) == [x |-> x, y |-> y]

\* F(v), with v evaluated once before F reads it: the value of an
\* expression bound to a name, as an assignment or a call binds it
Apply(F(_), v) == CHOOSE r \in {F(x) : x \in {v}} : TRUE

Abs(a) == IF a < 0 THEN -a ELSE a
Max(a, b) == IF a >= b THEN a ELSE b
Min(a, b) == IF a <= b THEN a ELSE b

\* int(a / b) of Python for b > 0: truncation toward zero
TruncDiv(a, b) == IF a >= 0 THEN a \div b ELSE -((-a) \div b)

\* a / b rounded to the nearest integer (halves away from zero), b > 0
RoundDiv(a, b) == IF a >= 0 THEN (2 * a + b) \div (2 * b)
                            ELSE -((2 * (-a) + b) \div (2 * b))

RECURSIVE SqrtIter(_, _)
SqrtIter(n, g) ==
    LET g2 == (g + n \div g) \div 2
    IN  IF g2 >= g THEN g ELSE SqrtIter(n, g2)

\* floor of the square root of n >= 0
ISqrt(n) == IF n <= 0 THEN 0 ELSE SqrtIter(n, n)

\* sqrt(s) > k and sqrt(s) < k for integers s >= 0 and k, through the square
SqrtGt(s, k) == k < 0 \/ s > k * k
SqrtLt(s, k) == k > 0 /\ s < k * k

(***************************************************************************)
(* utils.get_circle_intersection                                           *)
(*                                                                         *)
(* With d2 = |p1 - p2|^2 the code's intermediates are kept as fractions    *)
(* over powers of d:  a = a2d / (2 d),  h^2 = h2 / (4 d2),                  *)
(* x2 = p1.x + a (p2.x - p1.x) / d = (2 d2 p1.x + a2d (p2.x - p1.x)) / 2 d2 *)
(* and h dx / d = (2 d h) dx / (2 d2).  The returned point is the pair of  *)
(* numerators over the common denominator 2 d2; only 2 d h = sqrt(h2) is   *)
(* rounded (down).                                                         *)
(***************************************************************************)
\* mutant: tangent circles rejected (>= for >, <= for <)
CircleInfeasibleTangentRejected(d2, r1, r2) ==
    d2 >= (r1 + r2) * (r1 + r2) \/ d2 <= (r1 - r2) * (r1 - r2) \/ d2 = 0

CircleInfeasible(d2, r1, r2) ==
    SqrtGt(d2, r1 + r2) \/ SqrtLt(d2, Abs(r1 - r2)) \/ d2 = 0

\* mutant: the second solution's y offset has the sign of the first
get_circle_intersection_same_sign(p1, r1, p2, r2, chirality) ==
    LET d2  == (p1.x - p2.x) * (p1.x - p2.x) + (p1.y - p2.y) * (p1.y - p2.y)
        a2d == r1 * r1 - r2 * r2 + d2
        hs  == ISqrt(Max(0, 4 * d2 * r1 * r1 - a2d * a2d))
        den == 2 * d2
        x2  == den * p1.x + a2d * (p2.x - p1.x)
        y2  == den * p1.y + a2d * (p2.y - p1.y)
        dx  == p2.y - p1.y
        dy  == p2.x - p1.x
    IN  IF CircleInfeasible(d2, r1, r2)
        THEN None
        ELSE IF chirality = 1
             THEN [xn |-> x2 + hs * dx, yn |-> y2 - hs * dy, den |-> den]
             ELSE [xn |-> x2 - hs * dx, yn |-> y2 - hs * dy, den |-> den]

get_circle_intersection(p1, r1, p2, r2, chirality) ==
    LET d2  == (p1.x - p2.x) * (p1.x - p2.x) + (p1.y - p2.y) * (p1.y - p2.y)
        a2d == r1 * r1 - r2 * r2 + d2
        h2  == Max(0, 4 * d2 * r1 * r1 - a2d * a2d)
        hs  == ISqrt(h2)
        den == 2 * d2
        x2  == den * p1.x + a2d * (p2.x - p1.x)
        y2  == den * p1.y + a2d * (p2.y - p1.y)
        dx  == p2.y - p1.y
        dy  == p2.x - p1.x
        x3_1 == x2 + hs * dx
        y3_1 == y2 - hs * dy
        x3_2 == x2 - hs * dx
        y3_2 == y2 + hs * dy
    IN  IF CircleInfeasible(d2, r1, r2)
        THEN None
        ELSE IF chirality = 1
             THEN [xn |-> x3_1, yn |-> y3_1, den |-> den]
             ELSE [xn |-> x3_2, yn |-> y3_2, den |-> den]

\* the returned coordinates on the millimetre grid
FracPoint(q) == Pt(RoundDiv(q.xn, q.den), RoundDiv(q.yn, q.den))

(***************************************************************************)
(* Specification of get_circle_intersection as a pure function: the        *)
(* arguments are drawn at Init, each step calls it with one chirality.     *)
(***************************************************************************)
MaxCoord == 3
MaxRadius == 4

CircleCentres1 == {Pt(0, 0), Pt(1, -2)}
CircleCentres2 == {Pt(x, y) : x \in -MaxCoord..MaxCoord, y \in -MaxCoord..MaxCoord}

CircleIdle == ci_in = Idle /\ ci_out = Idle
HullIdle == hull_in = Idle /\ hull_out = Idle
EllipseIdle == ell_in = Idle /\ ell_out = Idle
LegIdle == leg = Idle /\ leg_call = Idle
DashIdle == dash = Idle /\ dash_call = Idle /\ dash_events = 0
SegIdle == seg_in = Idle /\ seg_call = Idle
LimIdle == lim_in = Idle /\ lim_out = Idle

CircleInit ==
    /\ HullIdle /\ EllipseIdle /\ LegIdle /\ DashIdle /\ SegIdle /\ LimIdle
    /\ ci_in \in [p1 : CircleCentres1, r1 : 0..MaxRadius,
                  p2 : CircleCentres2, r2 : 0..MaxRadius]
    /\ ci_out = [c \in {1, -1} |-> Pending]

CircleCall(c) ==
    /\ ci_out[c] = Pending
    /\ ci_out' = [ci_out EXCEPT ![c] =
                    get_circle_intersection(ci_in.p1, ci_in.r1, ci_in.p2, ci_in.r2, c)]
    /\ UNCHANGED <<ci_in, hull_vars, ell_vars, leg_vars, dash_vars, seg_vars, lim_vars>>

CircleNext == \E c \in {1, -1} : CircleCall(c)

SpecCircle == CircleInit /\ [][CircleNext]_vars

CircleD2 == (ci_in.p1.x - ci_in.p2.x) * (ci_in.p1.x - ci_in.p2.x)
            + (ci_in.p1.y - ci_in.p2.y) * (ci_in.p1.y - ci_in.p2.y)
\* d = r1 + r2 or d = |r1 - r2|, with d > 0
CircleTangent ==
    /\ CircleD2 > 0
    /\ \/ CircleD2 = (ci_in.r1 + ci_in.r2) * (ci_in.r1 + ci_in.r2)
       \/ CircleD2 = (ci_in.r1 - ci_in.r2) * (ci_in.r1 - ci_in.r2)

\* C6: get_circle_intersection returns None if and only if d > r1 + r2 or
\* d < |r1 - r2| or d = 0 (d the distance between the centres, radii >= 0);
\* for every other input, exact tangency with d > 0 included, it returns a
\* point.
C6_NoneIffInfeasible ==
    \A c \in {1, -1} :
        ci_out[c] # Pending =>
            /\ ci_out[c] = None <=>
                   \/ CircleD2 > (ci_in.r1 + ci_in.r2) * (ci_in.r1 + ci_in.r2)
                   \/ CircleD2 < (ci_in.r1 - ci_in.r2) * (ci_in.r1 - ci_in.r2)
                   \/ CircleD2 = 0
            /\ CircleTangent => ci_out[c] # None

\* C6 witness: a call on tangent circles (d > 0) that returned a point
C6_Witness ==
    /\ CircleTangent
    /\ ci_in.r1 > 0 /\ ci_in.r2 > 0
    /\ ci_out[1] # Pending
    /\ ci_out[1] # None

\* C7: where get_circle_intersection returns a point, the results for
\* chirality +1 and -1 are mirror images across the line through the two
\* centres: their midpoint lies on that line, their difference is
\* perpendicular to it, and they coincide exactly when the circles are
\* tangent.
C7_ChiralityMirror ==
    LET a  == ci_out[1]
        b  == ci_out[-1]
        Dx == ci_in.p2.x - ci_in.p1.x
        Dy == ci_in.p2.y - ci_in.p1.y
    IN  (a # Pending /\ b # Pending /\ (a # None \/ b # None)) =>
            /\ a # None /\ b # None
            /\ a.den = b.den
            \* (a + b) / 2 - p1 is parallel to p2 - p1
            /\ (a.xn + b.xn - 2 * a.den * ci_in.p1.x) * Dy
                  = (a.yn + b.yn - 2 * a.den * ci_in.p1.y) * Dx
            \* a - b is perpendicular to p2 - p1
            /\ (a.xn - b.xn) * Dx + (a.yn - b.yn) * Dy = 0
            /\ (a = b) <=> CircleTangent

\* C7 witness: both chiralities were computed on circles that cross in two
\* distinct points
C7_Witness ==
    /\ ci_out[1] # Pending /\ ci_out[-1] # Pending
    /\ ci_out[1] # None /\ ci_out[-1] # None
    /\ ci_out[1] # ci_out[-1]

(***************************************************************************)
(* utils.calculate_concave_hull                                            *)
(*                                                                         *)
(* points is the sequence of the cloud's points and a simplex a triple of  *)
(* indices into it (1-based here, 0-based in the code).  The triangulation *)
(* tri.simplices comes from scipy's Delaunay and is an input of the model. *)
(* Heron's formula on the three side lengths is the triangle's area, which *)
(* is |cross product| / 2: the model keeps twice the area (tri_area2), and *)
(* the squared side lengths a2, b2, c2.  alpha_threshold is kept as its    *)
(* reciprocal inv_alpha (0.04 -> 25), so that                              *)
(*   circum_r < 1 / alpha  <=>  a b c < 4 area inv_alpha                   *)
(*                         <=>  a2 b2 c2 < 4 inv_alpha^2 tri_area2^2.      *)
(***************************************************************************)
Dist2(p, q) == (p.x - q.x) * (p.x - q.x) + (p.y - q.y) * (p.y - q.y)

\* twice the area of the triangle pa, pb, pc
TriArea2(pa, pb, pc) ==
    Abs((pb.x - pa.x) * (pc.y - pa.y) - (pb.y - pa.y) * (pc.x - pa.x))

\* tri_area < 1e-5
TriDegenerate(pa, pb, pc) == 50000 * TriArea2(pa, pb, pc) < 1

\* circum_r < 1.0 / alpha_threshold
CircumSmall(pa, pb, pc, inv_alpha) ==
    Dist2(pa, pb) * Dist2(pb, pc) * Dist2(pc, pa)
        < 4 * inv_alpha * inv_alpha * TriArea2(pa, pb, pc) * TriArea2(pa, pb, pc)

\* the triangle passes both filters and is added to the hull
TriRetained(points, simplex, inv_alpha) ==
    LET pa == points[simplex[1]]
        pb == points[simplex[2]]
        pc == points[simplex[3]]
    IN  ~TriDegenerate(pa, pb, pc) /\ CircumSmall(pa, pb, pc, inv_alpha)

\* tuple(sorted((i, j)))
SortedPair(i, j) == IF i <= j THEN <<i, j>> ELSE <<j, i>>

\* the three edges of a simplex, in the code's order
SimplexEdges(simplex) ==
    [i \in 1..3 |-> SortedPair(simplex[i], simplex[(i % 3) + 1])]

\* mutant: an edge seen again stays in the set
ToggleEdgeAddOnly(boundary_edges, edge) == boundary_edges \cup {edge}

\* if edge in boundary_edges: remove, else: add
ToggleEdge(boundary_edges, edge) ==
    IF edge \in boundary_edges
    THEN boundary_edges \ {edge}
    ELSE boundary_edges \cup {edge}

ToggleEdges(boundary_edges, edges) ==
    ToggleEdge(ToggleEdge(ToggleEdge(boundary_edges, edges[1]), edges[2]), edges[3])

\* the body of the loop over tri.simplices, from simplex k on
RECURSIVE HullLoop(_, _, _, _, _)
HullLoop(points, simplices, inv_alpha, k, acc) ==
    IF k > Len(simplices) THEN acc
    ELSE LET simplex == simplices[k]
             area2   == TriArea2(points[simplex[1]], points[simplex[2]],
                                 points[simplex[3]])
         IN  IF TriRetained(points, simplex, inv_alpha)
             THEN HullLoop(points, simplices, inv_alpha, k + 1,
                           [total_area2 |-> acc.total_area2 + area2,
                            boundary_edges |->
                                ToggleEdges(acc.boundary_edges, SimplexEdges(simplex))])
             ELSE HullLoop(points, simplices, inv_alpha, k + 1, acc)

\* (total_area, lines), with the loop's boundary_edges kept beside them;
\* total_area2 is twice the area
calculate_concave_hull(points, simplices, inv_alpha) ==
    IF Len(points) < 4
    THEN [total_area2 |-> 0, boundary_edges |-> {}, lines |-> {}]
    ELSE LET r == HullLoop(points, simplices, inv_alpha, 1,
                           [total_area2 |-> 0, boundary_edges |-> {}])
         IN  [total_area2 |-> r.total_area2,
              boundary_edges |-> r.boundary_edges,
              lines |-> {<<points[e[1]], points[e[2]]>> : e \in r.boundary_edges}]

(***************************************************************************)
(* Specification of calculate_concave_hull as a pure function.  Two        *)
(* families of inputs: any short sequence of index triples over a 2 x 3    *)
(* block of points, and the triangulations of a 3 x 3 square lattice (each *)
(* cell cut along one of its diagonals), in several orders.                *)
(***************************************************************************)
MaxTris == 2
MaxSpacing == 2

\* the points (c, r) * spacing, row by row
Lattice(cols, rows, spacing) ==
    [k \in 1..(cols * rows) |->
        Pt(((k - 1) % cols) * spacing, ((k - 1) \div cols) * spacing)]

Triples(n) == {t \in (1..n) \X (1..n) \X (1..n) : t[1] < t[2] /\ t[2] < t[3]}

SeqsUpTo(S, n) == UNION {[1..m -> S] : m \in 0..n}

\* index of lattice point (c, r), 0-based coordinates, in a 3 x 3 lattice
L3(c, r) == r * 3 + c + 1

\* the two triangles of cell (c, r), cut along the diagonal diag
CellTriangles(c, r, diag) ==
    IF diag = 0
    THEN << <<L3(c, r), L3(c + 1, r), L3(c + 1, r + 1)>>,
            <<L3(c, r), L3(c + 1, r + 1), L3(c, r + 1)>> >>
    ELSE << <<L3(c, r), L3(c + 1, r), L3(c, r + 1)>>,
            <<L3(c + 1, r), L3(c + 1, r + 1), L3(c, r + 1)>> >>

\* a triangulation of the 3 x 3 lattice: diags[i] cuts cell i
LatticeTriangulation(diags) ==
    CellTriangles(0, 0, diags[1]) \o CellTriangles(1, 0, diags[2])
        \o CellTriangles(0, 1, diags[3]) \o CellTriangles(1, 1, diags[4])

Rotate(s, n) == [i \in 1..Len(s) |-> s[((i - 1 + n) % Len(s)) + 1]]
Reverse(s) == [i \in 1..Len(s) |-> s[Len(s) + 1 - i]]

HullInputsFree ==
    [points : {Lattice(3, 2, sp) : sp \in 1..MaxSpacing},
     simplices : SeqsUpTo(Triples(6), MaxTris),
     inv_alpha : {25, 1},
     lattice : {FALSE}]

HullInputsLattice ==
    {[points |-> Lattice(3, 3, sp), simplices |-> s, inv_alpha |-> ia,
      lattice |-> TRUE] :
        sp \in 1..MaxSpacing, ia \in {25, 1},
        s \in UNION {{Rotate(LatticeTriangulation(d), n),
                      Reverse(Rotate(LatticeTriangulation(d), n))} :
                        d \in [1..4 -> {0, 1}], n \in 0..7}}

\* clouds of fewer than four points: no triangulation is computed for them
HullInputsSmall ==
    [points : UNION {SeqsUpTo({Lattice(3, 2, sp)[k] : k \in 1..6}, 3) : sp \in 1..MaxSpacing},
     simplices : {<<>>},
     inv_alpha : {25},
     lattice : {FALSE}]

HullInit ==
    /\ CircleIdle /\ EllipseIdle /\ LegIdle /\ DashIdle /\ SegIdle /\ LimIdle
    /\ hull_in \in HullInputsFree \cup HullInputsLattice \cup HullInputsSmall
    /\ hull_out = Pending

HullCall ==
    /\ hull_out = Pending
    /\ hull_out' = calculate_concave_hull(hull_in.points, hull_in.simplices,
                                          hull_in.inv_alpha)
    /\ UNCHANGED <<circle_vars, hull_in, ell_vars, leg_vars, dash_vars, seg_vars, lim_vars>>

HullNext == HullCall

SpecHull == HullInit /\ [][HullNext]_vars

\* the simplices of the input that the filters retain
HullRetained ==
    {k \in 1..Len(hull_in.simplices) :
        TriRetained(hull_in.points, hull_in.simplices[k], hull_in.inv_alpha)}

\* in how many retained triangles the unordered pair {i, j} is an edge
EdgeCount(i, j) ==
    Cardinality({k \in HullRetained :
        \E a, b \in 1..3 : a # b /\ hull_in.simplices[k][a] = i
                                 /\ hull_in.simplices[k][b] = j})

\* lattice points i, j are neighbours on the outer square of the 3 x 3 lattice
OnPerimeter(i, j) ==
    LET ci == (i - 1) % 3
        ri == (i - 1) \div 3
        cj == (j - 1) % 3
        rj == (j - 1) \div 3
    IN  \/ ri = rj /\ ri \in {0, 2} /\ Abs(ci - cj) = 1
        \/ ci = cj /\ ci \in {0, 2} /\ Abs(ri - rj) = 1

\* C5: after the loop over the triangles, in any order, boundary_edges holds
\* the unordered pair {i, j} if and only if that edge occurs in an odd number
\* of retained triangles (an edge of two retained triangles is absent); for a
\* square lattice whose triangles are all retained it is exactly the outer
\* perimeter, with no interior edge and no diagonal.
C5_BoundaryParity ==
    hull_out # Pending =>
        LET n == Len(hull_in.points)
        IN  /\ \A i, j \in 1..n :
                  i < j => (<<i, j>> \in hull_out.boundary_edges
                                <=> EdgeCount(i, j) % 2 = 1)
            /\ \A e \in hull_out.boundary_edges : e[1] \in 1..n /\ e[2] \in 1..n /\ e[1] < e[2]
            /\ (hull_in.lattice /\ Cardinality(HullRetained) = Len(hull_in.simplices)) =>
                  hull_out.boundary_edges
                      = {<<i, j>> \in (1..n) \X (1..n) : i < j /\ OnPerimeter(i, j)}

\* C5 witness: a lattice triangulation, all of its triangles retained, whose
\* interior edges cancelled
C5_Witness ==
    /\ hull_out # Pending
    /\ hull_in.lattice
    /\ Cardinality(HullRetained) = Len(hull_in.simplices)
    /\ Cardinality(hull_out.boundary_edges) = 8

\* calculate_concave_hull returns area 0 and no line for every cloud of
\* fewer than four points
C15_SmallCloudHullEmpty ==
    (hull_out # Idle /\ hull_out # Pending /\ Len(hull_in.points) < 4) =>
        (hull_out.total_area2 = 0 /\ hull_out.lines = {})

(***************************************************************************)
(* utils.get_scan_limits_at_y and utils.calculate_max_centered_ellipse     *)
(*                                                                         *)
(* Coordinates of the boundary are integers on a grid of GridPerMm points  *)
(* per millimetre, so 1 mm (the row resolution) is GridPerMm and 2 mm (the *)
(* width step) is 2 * GridPerMm.  Intersections, radii and widths are      *)
(* exact fractions [n, d] (d > 0, reduced) of a grid step.  Every          *)
(* comparison of the code is made on the fractions; the comparison         *)
(* req_half_width > profile_radius[j] of two non-negative numbers is made  *)
(* on their squares.                                                       *)
(***************************************************************************)
GridPerMm == 2
aspect_num == 1
aspect_den == 2

RECURSIVE Gcd(_, _)
Gcd(a, b) == IF b = 0 THEN a ELSE Gcd(b, a % b)

\* the fraction n / d (d # 0), reduced, with a positive denominator
Frac(n, d) ==
    LET g == Gcd(Abs(n), Abs(d))
    IN  IF d > 0 THEN [n |-> n \div g, d |-> d \div g]
                 ELSE [n |-> (-n) \div g, d |-> (-d) \div g]
FInt(k) == [n |-> k, d |-> 1]
FZero == FInt(0)
FLt(a, b) == a.n * b.d < b.n * a.d
FLe(a, b) == a.n * b.d <= b.n * a.d
FAbs(a) == [n |-> Abs(a.n), d |-> a.d]
FMin(a, b) == IF FLe(a, b) THEN a ELSE b
FMaxOf(S) == CHOOSE f \in S : \A g \in S : FLe(g, f)
FMinOf(S) == CHOOSE f \in S : \A g \in S : FLe(f, g)
\* a - k for an integer k
FSubInt(a, k) == [n |-> a.n - k * a.d, d |-> a.d]
\* k * a for an integer k > 0
FScale(a, k) == Frac(k * a.n, a.d)

MinOf(S) == CHOOSE m \in S : \A k \in S : m <= k
MaxOf(S) == CHOOSE m \in S : \A k \in S : m >= k

\* the x of the segment's crossing of the horizontal line at y
CrossingX(seg, y) ==
    LET p1 == seg[1]
        p2 == seg[2]
    IN  Frac(p1.x * (p2.y - p1.y) + (y - p1.y) * (p2.x - p1.x), p2.y - p1.y)

\* mutant: the walls farthest from the axis are taken for the limits
get_scan_limits_at_y_outermost(y, hull_lines) ==
    LET hits == {seg \in hull_lines :
                    /\ \/ seg[1].y <= y /\ y <= seg[2].y
                       \/ seg[2].y <= y /\ y <= seg[1].y
                    /\ ~(100000 * Abs(seg[2].y - seg[1].y) < GridPerMm)}
        intersections == {CrossingX(seg, y) : seg \in hits}
        neg_x == {x \in intersections : 10 * x.n < -GridPerMm * x.d}
        pos_x == {x \in intersections : 10 * x.n > GridPerMm * x.d}
    IN  IF intersections = {} \/ neg_x = {} \/ pos_x = {}
        THEN [limit_left |-> FZero, limit_right |-> FZero]
        ELSE [limit_left |-> FMinOf(neg_x), limit_right |-> FMaxOf(pos_x)]

get_scan_limits_at_y(y, hull_lines) ==
    LET \* segments whose y range holds y, the near-horizontal ones skipped
        hits == {seg \in hull_lines :
                    /\ \/ seg[1].y <= y /\ y <= seg[2].y
                       \/ seg[2].y <= y /\ y <= seg[1].y
                    /\ ~(100000 * Abs(seg[2].y - seg[1].y) < GridPerMm)}
        intersections == {CrossingX(seg, y) : seg \in hits}
        \* x < -0.1 and x > 0.1 (millimetres)
        neg_x == {x \in intersections : 10 * x.n < -GridPerMm * x.d}
        pos_x == {x \in intersections : 10 * x.n > GridPerMm * x.d}
    IN  IF intersections = {} \/ neg_x = {} \/ pos_x = {}
        THEN [limit_left |-> FZero, limit_right |-> FZero]
        ELSE [limit_left |-> FMaxOf(neg_x), limit_right |-> FMinOf(pos_x)]

\* ys, min_y, max_y and the rows scan_ys = np.arange(min_y, max_y, 1.0),
\* indexed from 0
EllipseYs(hull_lines) == {seg[1].y : seg \in hull_lines} \cup {seg[2].y : seg \in hull_lines}
EllipseMinY(hull_lines) == MinOf(EllipseYs(hull_lines))
EllipseMaxY(hull_lines) == MaxOf(EllipseYs(hull_lines))
n_points(hull_lines) ==
    (EllipseMaxY(hull_lines) - EllipseMinY(hull_lines) + GridPerMm - 1) \div GridPerMm
scan_ys(hull_lines, i) == EllipseMinY(hull_lines) + i * GridPerMm

\* mutant: the radius of a row is the distance to the farther of its two walls
profile_radius_widest(hull_lines) ==
    [i \in 0..(n_points(hull_lines) - 1) |->
        LET lim == get_scan_limits_at_y(scan_ys(hull_lines, i), hull_lines)
        IN  IF FLe(FAbs(lim.limit_left), FAbs(lim.limit_right))
            THEN FAbs(lim.limit_right)
            ELSE FAbs(lim.limit_left)]

\* profile_radius as a function of the row index
profile_radius(hull_lines) ==
    [i \in 0..(n_points(hull_lines) - 1) |->
        LET lim == get_scan_limits_at_y(scan_ys(hull_lines, i), hull_lines)
        IN  IF lim.limit_left = FZero /\ lim.limit_right = FZero
            THEN FZero
            ELSE FMin(FAbs(lim.limit_left), FAbs(lim.limit_right))]

\* idx_start and idx_end of the candidate of width w centred on row i:
\* int((center_y -+ half_h - min_y) / resolution), half_h = w * aspect / 2
EllipseIdxStart(i, w) ==
    TruncDiv(2 * aspect_den * w.d * i * GridPerMm - aspect_num * w.n,
             2 * aspect_den * w.d * GridPerMm)
EllipseIdxEnd(i, w) ==
    TruncDiv(2 * aspect_den * w.d * i * GridPerMm + aspect_num * w.n,
             2 * aspect_den * w.d * GridPerMm)

\* req_half_width > profile_radius[j] for row j of the candidate (i, w):
\* term = 1 - (dy / half_h)^2 is term_num / (aspect_num w.n)^2 with dy in
\* grid steps, clamped at 0, and req_half_width^2 = (w / 2)^2 * term
RowCollides(i, w, j, radius) ==
    LET dy       == Abs(j - i) * GridPerMm
        term_num == aspect_num * aspect_num * w.n * w.n
                        - 4 * aspect_den * aspect_den * w.d * w.d * dy * dy
        term     == IF term_num < 0 THEN 0 ELSE term_num
    IN  term * radius.d * radius.d
            > 4 * w.d * w.d * aspect_num * aspect_num * radius.n * radius.n

\* idx_start < 0 or idx_end >= n_points
CandidateOutOfRange(i, w, n) ==
    EllipseIdxStart(i, w) < 0 \/ EllipseIdxEnd(i, w) >= n

\* mutant: only the centre row is checked
CandidateCollidesCentreOnly(i, w, profile) == RowCollides(i, w, i, profile[i])

\* the loop over the rows idx_start .. idx_end found a collision
CandidateCollides(i, w, profile) ==
    \E j \in EllipseIdxStart(i, w)..EllipseIdxEnd(i, w) :
        RowCollides(i, w, j, profile[j])

\* mutant: the loop over the widths stops one candidate too soon, when the
\* next candidate would be no better than the best
RECURSIVE WidthLoopStopsEarly(_, _, _, _)
WidthLoopStopsEarly(i, w, best_width, profile) ==
    IF ~(w.n > 0) THEN FZero
    ELSE IF FLe(FSubInt(w, 2 * GridPerMm), best_width) THEN FZero
    ELSE IF CandidateOutOfRange(i, w, Cardinality(DOMAIN profile))
         THEN WidthLoopStopsEarly(i, FSubInt(w, 2 * GridPerMm), best_width, profile)
    ELSE IF CandidateCollides(i, w, profile)
         THEN WidthLoopStopsEarly(i, FSubInt(w, 2 * GridPerMm), best_width, profile)
    ELSE w

\* the loop over test_widths = np.arange(current_w, 0, -2.0) from candidate
\* w on: valid_w for centre row i
RECURSIVE WidthLoop(_, _, _, _)
WidthLoop(i, w, best_width, profile) ==
    IF ~(w.n > 0) THEN FZero                        \* test_widths is exhausted
    ELSE IF FLe(w, best_width) THEN FZero           \* break: no better than the best
    ELSE IF CandidateOutOfRange(i, w, Cardinality(DOMAIN profile))
         THEN WidthLoop(i, FSubInt(w, 2 * GridPerMm), best_width, profile)
    ELSE IF CandidateCollides(i, w, profile)
         THEN WidthLoop(i, FSubInt(w, 2 * GridPerMm), best_width, profile)
    ELSE w

\* mutant: rows of radius below 1 mm are tried as centres too
CentreClosedNever(radius) == FALSE

\* max_possible_r_at_center < 1.0
CentreClosed(radius) == radius.n < GridPerMm * radius.d

\* the loop over the centre rows, from row i on
RECURSIVE CentreLoop(_, _, _, _)
CentreLoop(hull_lines, profile, i, best) ==
    IF i >= Cardinality(DOMAIN profile) THEN best
    ELSE IF CentreClosed(profile[i])
         THEN CentreLoop(hull_lines, profile, i + 1, best)
    ELSE LET valid_w == WidthLoop(i, FScale(profile[i], 2), best.best_width, profile)
         IN  IF FLt(best.best_width, valid_w)
             THEN CentreLoop(hull_lines, profile, i + 1,
                             [best_width |-> valid_w,
                              best_y |-> scan_ys(hull_lines, i)])
             ELSE CentreLoop(hull_lines, profile, i + 1, best)

\* (best_y, best_width, best_width * aspect_ratio)
calculate_max_centered_ellipse(hull_lines) ==
    IF hull_lines = {}
    THEN [best_y |-> 0, best_width |-> FZero, height |-> FZero]
    ELSE LET best == CentreLoop(hull_lines, profile_radius(hull_lines), 0,
                                [best_width |-> FZero, best_y |-> 0])
         IN  [best_y |-> best.best_y, best_width |-> best.best_width,
              height |-> Frac(best.best_width.n * aspect_num,
                              best.best_width.d * aspect_den)]

(***************************************************************************)
(* Specification of calculate_max_centered_ellipse as a pure function: the *)
(* boundary is any set of at most MaxSegs segments of a pool of walls      *)
(* (vertical, slanted and horizontal) left of, on and right of the axis.   *)
(***************************************************************************)
MaxSegs == 3

WallYs == {<<0, 3>>, <<3, 8>>, <<0, 8>>}
WallXs == {<<-8, -8>>, <<-3, -3>>, <<-1, -1>>, <<0, 0>>, <<1, 1>>, <<4, 4>>, <<7, 7>>,
           <<-8, -3>>, <<-3, -8>>, <<4, 7>>, <<7, 4>>}
WallPool ==
    {<<Pt(xs[1], ys[1]), Pt(xs[2], ys[2])>> : xs \in WallXs, ys \in WallYs}
        \cup {<<Pt(-8, 0), Pt(7, 0)>>, <<Pt(-8, 8), Pt(7, 8)>>}

\* the subsets of S of at most n elements
RECURSIVE SubsetsUpTo(_, _)
SubsetsUpTo(S, n) ==
    IF n = 0 THEN {{}}
    ELSE LET prev == SubsetsUpTo(S, n - 1)
         IN  prev \cup {p \cup {x} : p \in prev, x \in S}

EllipseInit ==
    /\ CircleIdle /\ HullIdle /\ LegIdle /\ DashIdle /\ SegIdle /\ LimIdle
    /\ ell_in \in SubsetsUpTo(WallPool, MaxSegs)
    /\ ell_out = Pending

EllipseCall ==
    /\ ell_out = Pending
    /\ ell_out' = calculate_max_centered_ellipse(ell_in)
    /\ UNCHANGED <<circle_vars, hull_vars, ell_in, leg_vars, dash_vars, seg_vars, lim_vars>>

EllipseNext == EllipseCall

SpecEllipse == EllipseInit /\ [][EllipseNext]_vars

EllipseDone == ell_out # Idle /\ ell_out # Pending
EllipseZero == [best_y |-> 0, best_width |-> FZero, height |-> FZero]
EllipseRows == 0..(n_points(ell_in) - 1)
FMul(a, b) == Frac(a.n * b.n, a.d * b.d)
FSub(a, b) == Frac(a.n * b.d - b.n * a.d, a.d * b.d)
FDiv(a, b) == Frac(a.n * b.d, a.d * b.n)
\* row j lies within the Y-extent of the returned ellipse
RowInExtent(j) ==
    2 * Abs(scan_ys(ell_in, j) - ell_out.best_y) * ell_out.height.d <= ell_out.height.n
\* the square of the half-width the returned ellipse needs at row j:
\* (width / 2)^2 * max(0, 1 - (dy / (height / 2))^2)
ReqHalfWidth2(j) ==
    LET dy   == FInt(Abs(scan_ys(ell_in, j) - ell_out.best_y))
        q    == FDiv(dy, FDiv(ell_out.height, FInt(2)))
        term == FSub(FInt(1), FMul(q, q))
        half == FDiv(ell_out.best_width, FInt(2))
    IN  IF term.n < 0 THEN FZero ELSE FMul(FMul(half, half), term)

\* C3: whenever the returned width is positive, the vertical extent
\* [center_y - height/2, center_y + height/2] of the returned ellipse is
\* contained in [min_y, max_y] of the boundary's segment endpoints.
C3_EllipseWithinYRange ==
    (EllipseDone /\ ell_in # {} /\ ell_out.best_width.n > 0) =>
        /\ 2 * ell_out.best_y * ell_out.height.d - ell_out.height.n
               >= 2 * EllipseMinY(ell_in) * ell_out.height.d
        /\ 2 * ell_out.best_y * ell_out.height.d + ell_out.height.n
               <= 2 * EllipseMaxY(ell_in) * ell_out.height.d

\* C4: for a returned ellipse of positive width, every sampled row within
\* the ellipse's Y-extent has a profile radius at least the half-width the
\* ellipse needs there, (width/2) * sqrt(max(0, 1 - (dy/(height/2))^2)); so a
\* covered row of profile radius 0 needs half-width 0.
C4_NonCollision ==
    (EllipseDone /\ ell_in # {} /\ ell_out.best_width.n > 0) =>
        \A j \in EllipseRows :
            RowInExtent(j) =>
                LET radius == profile_radius(ell_in)[j]
                IN  /\ FLe(ReqHalfWidth2(j), FMul(radius, radius))
                    /\ radius = FZero => ReqHalfWidth2(j) = FZero

\* a wider candidate was turned down for a collision off the centre row, and
\* the returned ellipse covers a row other than its centre where it needs a
\* positive half-width
C4_Witness ==
    /\ EllipseDone /\ ell_in # {} /\ ell_out.best_width.n > 0
    /\ \E j \in EllipseRows :
          /\ scan_ys(ell_in, j) # ell_out.best_y
          /\ RowInExtent(j)
          /\ ReqHalfWidth2(j).n > 0
    /\ \E i \in EllipseRows :
          LET w == FSubInt(ell_out.best_width, -2 * GridPerMm)
              profile == profile_radius(ell_in)
          IN  /\ scan_ys(ell_in, i) = ell_out.best_y
              /\ FLe(w, FScale(profile[i], 2))
              /\ ~CandidateOutOfRange(i, w, n_points(ell_in))
              /\ ~RowCollides(i, w, i, profile[i])
              /\ CandidateCollides(i, w, profile)

\* a profile radius below 1 mm
RowBelowOneMm(radius) == FLt(radius, FInt(GridPerMm))

\* the candidate widths np.arange(2 r, 0, -2.0) of centre row i
TestWidths(i) ==
    LET r == profile_radius(ell_in)[i]
    IN  {w \in {FSubInt(FScale(r, 2), 2 * GridPerMm * k) : k \in 0..(r.n \div (r.d * GridPerMm) + 1)} :
            w.n > 0}
\* no candidate width passes for any row that qualifies as a centre
NoCandidatePasses ==
    \A i \in EllipseRows :
        LET profile == profile_radius(ell_in)
        IN  ~RowBelowOneMm(profile[i]) =>
                \A w \in TestWidths(i) :
                    \/ CandidateOutOfRange(i, w, n_points(ell_in))
                    \/ CandidateCollides(i, w, profile)

\* C10: the ellipse fit returns (0, 0, 0) when the boundary is empty, when
\* every sampled row has profile radius below 1 mm and when no candidate
\* width passes for any centre; it always returns a value, and a positive
\* width is returned only with a centre row of profile radius at least 1 mm.
C10_ZeroWhenNoCentre ==
    EllipseDone =>
        /\ ell_out.best_y \in Int
        /\ ell_in = {} => ell_out = EllipseZero
        /\ (ell_in # {} /\ \A i \in EllipseRows : RowBelowOneMm(profile_radius(ell_in)[i]))
               => ell_out = EllipseZero
        /\ (ell_in # {} /\ NoCandidatePasses) => ell_out = EllipseZero
        /\ (ell_in # {} /\ ell_out.best_width.n > 0) =>
               \E i \in EllipseRows :
                   /\ scan_ys(ell_in, i) = ell_out.best_y
                   /\ ~RowBelowOneMm(profile_radius(ell_in)[i])

\* a boundary with walls on both sides of every sampled row, all of them
\* closer than 1 mm to the axis: the fit returns (0, 0, 0)
C10_Witness ==
    /\ EllipseDone /\ ell_in # {} /\ n_points(ell_in) > 1
    /\ \A i \in EllipseRows :
          /\ profile_radius(ell_in)[i] # FZero
          /\ RowBelowOneMm(profile_radius(ell_in)[i])
    /\ ell_out = EllipseZero

\* the symmetric safe half-width at row i: the distance from the axis X = 0
\* to the nearer of the closest wall on its left and the closest on its right
SafeHalfWidth(i) ==
    LET lim == get_scan_limits_at_y(scan_ys(ell_in, i), ell_in)
    IN  FMin(FAbs(lim.limit_left), FAbs(lim.limit_right))

\* C11: whenever the returned width is positive, the returned center_y is
\* one of the sampled rows, the symmetric safe half-width W of that row is at
\* least 1 mm, and the width is at most 2 W.
C11_WidthWithinCentreProfile ==
    (EllipseDone /\ ell_in # {} /\ ell_out.best_width.n > 0) =>
        \E i \in EllipseRows :
            /\ scan_ys(ell_in, i) = ell_out.best_y
            /\ FLe(FInt(GridPerMm), SafeHalfWidth(i))
            /\ FLe(ell_out.best_width, FScale(SafeHalfWidth(i), 2))

\* a returned ellipse narrower than 2 W at its centre row (wider candidates
\* were turned down) on a boundary whose walls are not symmetric there
C11_Witness ==
    /\ EllipseDone /\ ell_in # {} /\ ell_out.best_width.n > 0
    /\ \E i \in EllipseRows :
          LET lim == get_scan_limits_at_y(scan_ys(ell_in, i), ell_in)
          IN  /\ scan_ys(ell_in, i) = ell_out.best_y
              /\ FAbs(lim.limit_left) # FAbs(lim.limit_right)
              /\ FLt(ell_out.best_width, FScale(SafeHalfWidth(i), 2))

\* the candidate widths of centre row i that pass the range check and the
\* row checks
PassingWidths(i) ==
    {w \in TestWidths(i) :
        /\ ~CandidateOutOfRange(i, w, n_points(ell_in))
        /\ ~CandidateCollides(i, w, profile_radius(ell_in))}
\* the largest of them, 0 if none passes or the row is no centre
LargestPassing(i) ==
    IF RowBelowOneMm(profile_radius(ell_in)[i]) \/ PassingWidths(i) = {} THEN FZero
    ELSE FMaxOf(PassingWidths(i))
\* the maximum over all centres
MaxPassing == FMaxOf({LargestPassing(i) : i \in EllipseRows} \cup {FZero})

\* C25: the early stop of the loop over the widths (w_cand <= best_width)
\* does not change the result of the search: the returned width is the
\* maximum, over all centres of profile radius >= 1, of the largest
\* candidate width in {2r, 2r - 2, 2r - 4, .. > 0} that passes the range
\* and row checks for that centre (0 if none), and the returned center_y
\* is the lowest-Y centre attaining that maximum, which is what the same
\* search without the early stop returns.
C25_PruningKeepsResult ==
    (EllipseDone /\ ell_in # {}) =>
        /\ ell_out.best_width = MaxPassing
        /\ ell_out.height = FMul(MaxPassing, Frac(aspect_num, aspect_den))
        /\ MaxPassing = FZero => ell_out.best_y = 0
        /\ MaxPassing # FZero =>
              \E i \in EllipseRows :
                  /\ ell_out.best_y = scan_ys(ell_in, i)
                  /\ LargestPassing(i) = MaxPassing
                  /\ \A k \in EllipseRows : k < i => LargestPassing(k) # MaxPassing

\* the early stop cut the search short at a centre above the returned one:
\* that centre has a passing width, narrower than the width returned, below
\* candidates that the stop left untried
C25_Witness ==
    /\ EllipseDone /\ ell_in # {} /\ ell_out.best_width.n > 0
    /\ \E i \in EllipseRows :
          /\ scan_ys(ell_in, i) > ell_out.best_y
          /\ LargestPassing(i) # FZero
          /\ FLt(LargestPassing(i), ell_out.best_width)
          /\ FLt(ell_out.best_width, FScale(profile_radius(ell_in)[i], 2))

\* the X of the crossings of the row at y with the segments whose Y-range
\* holds y, the horizontal ones left out
RowXs(y) ==
    {Frac(seg[1].x * (seg[2].y - seg[1].y) + (y - seg[1].y) * (seg[2].x - seg[1].x),
          seg[2].y - seg[1].y) :
        seg \in {sg \in ell_in : /\ sg[1].y # sg[2].y
                                  /\ Min(sg[1].y, sg[2].y) <= y
                                  /\ y <= Max(sg[1].y, sg[2].y)}}
\* the crossings below -0.1 mm and above 0.1 mm
RowXsLeft(y) == {x \in RowXs(y) : FLt(x, Frac(-GridPerMm, 10))}
RowXsRight(y) == {x \in RowXs(y) : FLt(Frac(GridPerMm, 10), x)}
\* min(|L|, |R|) for L the largest crossing on the left and R the smallest
\* on the right, 0 if either side has none
RowRadius(y) ==
    IF RowXsLeft(y) = {} \/ RowXsRight(y) = {} THEN FZero
    ELSE LET L == CHOOSE x \in RowXsLeft(y) : \A o \in RowXsLeft(y) : FLe(o, x)
             R == CHOOSE x \in RowXsRight(y) : \A o \in RowXsRight(y) : FLe(x, o)
         IN  IF FLe(FAbs(L), FAbs(R)) THEN FAbs(L) ELSE FAbs(R)

\* C24: profile construction.  For each sampled Y the profile radius is
\* min(|L|, |R|), where L is the largest intersection X below -0.1 and R
\* the smallest intersection X above 0.1 among the boundary segments whose
\* Y-range contains Y (segments with |dy| < 1e-5 skipped); the radius is 0
\* if there is no intersection on either one of the two sides; the rows
\* are sampled every 1 mm from min-Y up to max-Y of the boundary endpoints
\* (min-Y, min-Y + 1, .. as long as they are below max-Y).
C24_ProfileConstruction ==
    (EllipseDone /\ ell_in # {}) =>
        LET profile == profile_radius(ell_in)
            min_y   == MinOf({seg[k].y : seg \in ell_in, k \in {1, 2}})
            max_y   == MaxOf({seg[k].y : seg \in ell_in, k \in {1, 2}})
            rows    == {k \in 0..(max_y - min_y) : min_y + k * GridPerMm < max_y}
        IN  /\ DOMAIN profile = rows
            /\ \A i \in rows :
                  /\ scan_ys(ell_in, i) = min_y + i * GridPerMm
                  /\ profile[i] = RowRadius(min_y + i * GridPerMm)

\* a boundary of several rows with a row that has two walls on its left
\* and takes the nearer, nearer than the wall on its right, and a row of
\* radius 0 with a wall on one side only
C24_Witness ==
    /\ EllipseDone /\ ell_in # {} /\ n_points(ell_in) >= 3
    /\ \E i \in EllipseRows :
          /\ Cardinality(RowXsLeft(scan_ys(ell_in, i))) = 2
          /\ RowXsRight(scan_ys(ell_in, i)) # {}
          /\ profile_radius(ell_in)[i] \in {FAbs(x) : x \in RowXsLeft(scan_ys(ell_in, i))}
          /\ \A x \in RowXsLeft(scan_ys(ell_in, i)) : FLe(profile_radius(ell_in)[i], FAbs(x))
    /\ \E i \in EllipseRows :
          /\ RowXsLeft(scan_ys(ell_in, i)) # {}
          /\ RowXsRight(scan_ys(ell_in, i)) = {}
          /\ profile_radius(ell_in)[i] = FZero

(***************************************************************************)
(* Specification of get_scan_limits_at_y as a pure function: the boundary  *)
(* is a closed one, made of at most MaxLoops closed loops (rectangles and  *)
(* diamonds) that lie apart from each other or one inside a rectangle, as  *)
(* the lobes and the holes of an alpha shape do; y is any row of LimRows.  *)
(***************************************************************************)
MaxLoops == 2

LimXs == {-8, -3, 4, 7}
LimYs == {0, 2, 6, 8}
LimRows == -1..9

\* the closed loop through the vertices vs, as the set of its segments
Loop(vs) == {<<vs[i], vs[(i % Len(vs)) + 1]>> : i \in 1..Len(vs)}

LimShapes ==
    {sh \in [kind : {"rectangle", "diamond"}, x1 : LimXs, x2 : LimXs, y1 : LimYs, y2 : LimYs] :
        /\ sh.x1 < sh.x2 /\ sh.y1 < sh.y2
        /\ sh.kind = "diamond" => ((sh.x1 + sh.x2) % 2 = 0 /\ (sh.y1 + sh.y2) % 2 = 0)}
ShapeLoop(sh) ==
    IF sh.kind = "rectangle"
    THEN Loop(<<Pt(sh.x1, sh.y1), Pt(sh.x2, sh.y1), Pt(sh.x2, sh.y2), Pt(sh.x1, sh.y2)>>)
    ELSE Loop(<<Pt(sh.x1, (sh.y1 + sh.y2) \div 2), Pt((sh.x1 + sh.x2) \div 2, sh.y1),
                Pt(sh.x2, (sh.y1 + sh.y2) \div 2), Pt((sh.x1 + sh.x2) \div 2, sh.y2)>>)
\* the two loops lie apart, or b lies within the rectangle a
ShapesApart(a, b) ==
    a.x2 < b.x1 \/ b.x2 < a.x1 \/ a.y2 < b.y1 \/ b.y2 < a.y1
ShapeWithin(a, b) ==
    a.kind = "rectangle" /\ a.x1 < b.x1 /\ b.x2 < a.x2 /\ a.y1 < b.y1 /\ b.y2 < a.y2
LimBoundaries ==
    {UNION {ShapeLoop(sh) : sh \in shapes} :
        shapes \in {c \in SubsetsUpTo(LimShapes, MaxLoops) :
                      /\ c # {}
                      /\ \A a \in c : \A b \in c \ {a} :
                            ShapesApart(a, b) \/ ShapeWithin(a, b) \/ ShapeWithin(b, a)}}

LimInit ==
    /\ CircleIdle /\ HullIdle /\ EllipseIdle /\ LegIdle /\ DashIdle /\ SegIdle
    /\ lim_in \in [y : LimRows, hull_lines : LimBoundaries]
    /\ lim_out = Pending

LimCall ==
    /\ lim_out = Pending
    /\ lim_out' = get_scan_limits_at_y(lim_in.y, lim_in.hull_lines)
    /\ UNCHANGED <<circle_vars, hull_vars, ell_vars, leg_vars, dash_vars, seg_vars, lim_in>>

LimNext == LimCall

SpecScanLimits == LimInit /\ [][LimNext]_vars

LimDone == lim_out # Idle /\ lim_out # Pending
LimZero == [limit_left |-> FZero, limit_right |-> FZero]

\* the segments of the boundary that the row at y crosses, each counted
\* once where two of them meet on the row (the lower end of a segment
\* counts, the upper end does not)
RowCrossings(y, hull_lines) ==
    {seg \in hull_lines : Min(seg[1].y, seg[2].y) <= y /\ y < Max(seg[1].y, seg[2].y)}
CrossingsLeft(y, hull_lines) ==
    {seg \in RowCrossings(y, hull_lines) : CrossingX(seg, y).n < 0}
CrossingsRight(y, hull_lines) ==
    {seg \in RowCrossings(y, hull_lines) : CrossingX(seg, y).n > 0}
\* the point (0, y) lies inside the region the boundary encloses: the row
\* crosses the boundary an odd number of times on each side of it
AxisInside(y, hull_lines) ==
    /\ Cardinality(CrossingsLeft(y, hull_lines)) % 2 = 1
    /\ Cardinality(CrossingsRight(y, hull_lines)) % 2 = 1

\* C23: get_scan_limits_at_y returns (0, 0) whenever X = 0 is not contained
\* in the region enclosed by the boundary at height y: a non-zero
\* (left, right) pair is returned only if the point (0, y) lies inside the
\* boundary polygon (odd number of boundary crossings on each side), not
\* merely between some wall on the left and some wall on the right.
C23_NonZeroOnlyInside ==
    (LimDone /\ lim_out # LimZero) => AxisInside(lim_in.y, lim_in.hull_lines)

\* what the code does return a non-zero pair for: a row with some wall
\* further than 0.1 mm to the left of the axis and some wall further than
\* 0.1 mm to its right, the nearest of each
ScanLimitsBetweenWalls ==
    LimDone =>
        LET xs == {CrossingX(seg, lim_in.y) :
                      seg \in {sg \in lim_in.hull_lines :
                                  /\ Min(sg[1].y, sg[2].y) <= lim_in.y
                                  /\ lim_in.y <= Max(sg[1].y, sg[2].y)
                                  /\ sg[1].y # sg[2].y}}
            left  == {x \in xs : 10 * x.n < -GridPerMm * x.d}
            right == {x \in xs : 10 * x.n > GridPerMm * x.d}
        IN  /\ lim_out # LimZero <=> (left # {} /\ right # {})
            /\ lim_out # LimZero =>
                  /\ lim_out.limit_left \in left /\ lim_out.limit_right \in right
                  /\ \A x \in left : FLe(x, lim_out.limit_left)
                  /\ \A x \in right : FLe(lim_out.limit_right, x)

\* a row through two lobes that lie apart, one on each side of the axis:
\* the axis is outside both and a non-zero pair is returned
TwoLobesAcrossAxis ==
    /\ LimDone /\ lim_out # LimZero
    /\ ~AxisInside(lim_in.y, lim_in.hull_lines)
    /\ Cardinality(CrossingsLeft(lim_in.y, lim_in.hull_lines)) = 2
    /\ Cardinality(CrossingsRight(lim_in.y, lim_in.hull_lines)) = 2
    /\ \A seg \in lim_in.hull_lines : seg[1].x * seg[2].x > 0

(***************************************************************************)
(* Angles and vectors of the leg geometry                                  *)
(*                                                                         *)
(* An angle in radians is a whole number of steps of pi/360, so            *)
(* np.radians doubles a number of degrees and np.degrees halves a number   *)
(* of steps.  SinTable holds 10000 sin(k pi/360) for k = 0 .. 180.         *)
(***************************************************************************)
TrigScale == 10000
SinTable == <<
    0, 87, 175, 262, 349, 436, 523, 610, 698, 785, 872, 958,
    1045, 1132, 1219, 1305, 1392, 1478, 1564, 1650, 1736, 1822, 1908, 1994,
    2079, 2164, 2250, 2334, 2419, 2504, 2588, 2672, 2756, 2840, 2924, 3007,
    3090, 3173, 3256, 3338, 3420, 3502, 3584, 3665, 3746, 3827, 3907, 3987,
    4067, 4147, 4226, 4305, 4384, 4462, 4540, 4617, 4695, 4772, 4848, 4924,
    5000, 5075, 5150, 5225, 5299, 5373, 5446, 5519, 5592, 5664, 5736, 5807,
    5878, 5948, 6018, 6088, 6157, 6225, 6293, 6361, 6428, 6494, 6561, 6626,
    6691, 6756, 6820, 6884, 6947, 7009, 7071, 7133, 7193, 7254, 7314, 7373,
    7431, 7490, 7547, 7604, 7660, 7716, 7771, 7826, 7880, 7934, 7986, 8039,
    8090, 8141, 8192, 8241, 8290, 8339, 8387, 8434, 8480, 8526, 8572, 8616,
    8660, 8704, 8746, 8788, 8829, 8870, 8910, 8949, 8988, 9026, 9063, 9100,
    9135, 9171, 9205, 9239, 9272, 9304, 9336, 9367, 9397, 9426, 9455, 9483,
    9511, 9537, 9563, 9588, 9613, 9636, 9659, 9681, 9703, 9724, 9744, 9763,
    9781, 9799, 9816, 9833, 9848, 9863, 9877, 9890, 9903, 9914, 9925, 9936,
    9945, 9954, 9962, 9969, 9976, 9981, 9986, 9990, 9994, 9997, 9998, 10000,
    10000
>>

\* np.radians and np.degrees
radians(deg) == 2 * deg
degrees(rad) == RoundDiv(rad, 2)

\* np.sin and np.cos of an angle in radians, times TrigScale
sin(phi) ==
    LET m == phi % 720
    IN  IF m <= 180 THEN SinTable[m + 1]
        ELSE IF m <= 360 THEN SinTable[360 - m + 1]
        ELSE IF m <= 540 THEN -SinTable[m - 360 + 1]
        ELSE -SinTable[720 - m + 1]
cos(phi) == sin(phi + 180)

pol2cart(rho, phi) ==
    Pt(RoundDiv(rho * cos(phi), TrigScale), RoundDiv(rho * sin(phi), TrigScale))

PAdd(p, q) == Pt(p.x + q.x, p.y + q.y)
PSub(p, q) == Pt(p.x - q.x, p.y - q.y)
Dot(p, q) == p.x * q.x + p.y * q.y
\* the square of np.linalg.norm
Norm2(v) == v.x * v.x + v.y * v.y
\* np.linalg.norm(v) below a threshold under the grid (1e-3, 1e-6) or `== 0`
NormIsZero(v) == Norm2(v) < 1

\* the largest k in lo .. hi - 1 with tan(k) <= ay / ax, for ax, ay >= 0
RECURSIVE QuadSearch(_, _, _, _)
QuadSearch(ay, ax, lo, hi) ==
    IF hi - lo <= 1 THEN lo
    ELSE LET mid == (lo + hi) \div 2
         IN  IF SinTable[mid + 1] * ax <= SinTable[180 - mid + 1] * ay
             THEN QuadSearch(ay, ax, mid, hi)
             ELSE QuadSearch(ay, ax, lo, mid)
\* the step of the first quadrant nearest to the direction (ax, ay)
QuadAngle(ay, ax) ==
    LET k == QuadSearch(ay, ax, 0, 181)
    IN  IF k < 180 /\ ax * SinTable[180 - (k + 1) + 1] + ay * SinTable[(k + 1) + 1]
                        > ax * SinTable[180 - k + 1] + ay * SinTable[k + 1]
        THEN k + 1 ELSE k
\* np.arctan2(y, x), in radians from -pi (exclusive) to pi
arctan2(y, x) ==
    IF x = 0 /\ y = 0 THEN 0
    ELSE LET q == QuadAngle(Abs(y), Abs(x))
         IN  IF x >= 0 THEN (IF y >= 0 THEN q ELSE -q)
             ELSE (IF y >= 0 THEN 360 - q ELSE q - 360)

\* base + unit(vec) * length, with the norm of vec taken to 1 / NormScale
NormScale == 100
ExtendAlong(base, vec, length) ==
    LET norm == ISqrt(Norm2(vec) * NormScale * NormScale)
    IN  Pt(base.x + RoundDiv(vec.x * length * NormScale, norm),
           base.y + RoundDiv(vec.y * length * NormScale, norm))

(***************************************************************************)
(* utils.dist_point_segment, ccw, intersect, min_dist_segments             *)
(*                                                                         *)
(* A distance is carried as its square, rounded down to a whole square     *)
(* millimetre: d < c for a whole c exactly when the carried value is below *)
(* c * c.  The distance from p to its projection a + t ab with 0 < t < 1   *)
(* is |ab x ap| / |ab|.                                                    *)
(***************************************************************************)
\* mutant: t is not clamped, the distance is the one to the line through a, b
dist_point_line(p, a, b) ==
    LET ab     == PSub(b, a)
        ap     == PSub(p, a)
        len_sq == Norm2(ab)
        cross  == ab.x * ap.y - ab.y * ap.x
    IN  IF len_sq = 0 THEN Norm2(ap)
        ELSE (cross * cross) \div len_sq

dist_point_segment(p, a, b) ==
    LET ab     == PSub(b, a)
        ap     == PSub(p, a)
        len_sq == Norm2(ab)
        dot    == Dot(ap, ab)
        cross  == ab.x * ap.y - ab.y * ap.x
    IN  IF len_sq = 0 THEN Norm2(ap)
        ELSE IF dot <= 0 THEN Norm2(ap)                 \* t = 0: projection = a
        ELSE IF dot >= len_sq THEN Norm2(PSub(p, b))    \* t = 1: projection = b
        ELSE (cross * cross) \div len_sq

\* d < threshold for a carried distance d
DistBelow(d, threshold) == d < threshold * threshold

ccw(A, B, C) == (C.y - A.y) * (B.x - A.x) > (B.y - A.y) * (C.x - A.x)

\* twice the signed area of the triangle A, B, C
Orient(A, B, C) == (B.x - A.x) * (C.y - A.y) - (B.y - A.y) * (C.x - A.x)

\* mutant: the orientation test is not strict, touching counts as crossing
intersect_inclusive(A, B, C, D) ==
    /\ Orient(C, D, A) * Orient(C, D, B) <= 0
    /\ Orient(A, B, C) * Orient(A, B, D) <= 0

intersect(A, B, C, D) ==
    ccw(A, C, D) # ccw(B, C, D) /\ ccw(A, B, C) # ccw(A, B, D)

\* mutant: the crossing test is left out
min_dist_segments_endpoints(seg1, seg2) ==
    LET d1 == dist_point_segment(seg2[1], seg1[1], seg1[2])
        d2 == dist_point_segment(seg2[2], seg1[1], seg1[2])
        d3 == dist_point_segment(seg1[1], seg2[1], seg2[2])
        d4 == dist_point_segment(seg1[2], seg2[1], seg2[2])
    IN  Min(Min(d1, d2), Min(d3, d4))

min_dist_segments(seg1, seg2) ==
    LET p1 == seg1[1]
        p2 == seg1[2]
        p3 == seg2[1]
        p4 == seg2[2]
        d1 == dist_point_segment(p3, p1, p2)
        d2 == dist_point_segment(p4, p1, p2)
        d3 == dist_point_segment(p1, p3, p4)
        d4 == dist_point_segment(p2, p3, p4)
    IN  IF intersect(p1, p2, p3, p4) THEN 0
        ELSE Min(Min(d1, d2), Min(d3, d4))

(***************************************************************************)
(* Specification of the segment functions as pure functions: four points   *)
(* A, B, C, D are drawn at Init from a square grid of SegCoords, and one   *)
(* step calls dist_point_segment(A, B, C), intersect(A, B, C, D) or        *)
(* min_dist_segments((A, B), (C, D)).                                      *)
(***************************************************************************)
SegCoords == {0, 3, 5, 10}
SegPoints == {Pt(x, y) : x \in SegCoords, y \in SegCoords}

SegInit ==
    /\ CircleIdle /\ HullIdle /\ EllipseIdle /\ LegIdle /\ DashIdle /\ LimIdle
    /\ seg_in \in [A : SegPoints, B : SegPoints, C : SegPoints, D : SegPoints]
    /\ seg_call = Pending

SegReturn(op, result) ==
    /\ seg_call = Pending
    /\ seg_call' = [op |-> op, result |-> result]
    /\ UNCHANGED <<circle_vars, hull_vars, ell_vars, leg_vars, dash_vars, seg_in, lim_vars>>

SegDistPointSegment ==
    SegReturn("dist_point_segment", dist_point_segment(seg_in.A, seg_in.B, seg_in.C))

SegIntersect ==
    SegReturn("intersect", intersect(seg_in.A, seg_in.B, seg_in.C, seg_in.D))

SegMinDistSegments ==
    SegReturn("min_dist_segments",
              min_dist_segments(<<seg_in.A, seg_in.B>>, <<seg_in.C, seg_in.D>>))

SegNext == SegDistPointSegment \/ SegIntersect \/ SegMinDistSegments

SpecSegments == SegInit /\ [][SegNext]_vars

SegCalled(op) == seg_call # Idle /\ seg_call # Pending /\ seg_call.op = op

\* C12: min_dist_segments(seg1, seg2) returns exactly 0 when intersect
\* reports that the segments cross, and otherwise the minimum of the four
\* point-to-segment distances (each endpoint of one segment to the other
\* segment); ((0,0),(10,10)) and ((0,10),(10,0)) give 0.
C12_ZeroWhenCrossingElseEndpointMin ==
    SegCalled("min_dist_segments") =>
        LET A == seg_in.A
            B == seg_in.B
            C == seg_in.C
            D == seg_in.D
        IN  /\ intersect(A, B, C, D) => seg_call.result = 0
            /\ ~intersect(A, B, C, D) =>
                   seg_call.result = MinOf({dist_point_segment(C, A, B),
                                            dist_point_segment(D, A, B),
                                            dist_point_segment(A, C, D),
                                            dist_point_segment(B, C, D)})
            /\ (A = Pt(0, 0) /\ B = Pt(10, 10) /\ C = Pt(0, 10) /\ D = Pt(10, 0)) =>
                   seg_call.result = 0

\* the call on the two diagonals of the square, whose four endpoints are
\* each farther than 7 from the other diagonal
C12_Witness ==
    /\ SegCalled("min_dist_segments")
    /\ seg_in = [A |-> Pt(0, 0), B |-> Pt(10, 10), C |-> Pt(0, 10), D |-> Pt(10, 0)]
    /\ dist_point_segment(seg_in.C, seg_in.A, seg_in.B) = 50
    /\ seg_call.result = 0

\* A, B, C, D lie on one line
SegCollinear ==
    /\ Orient(seg_in.A, seg_in.B, seg_in.C) = 0
    /\ Orient(seg_in.A, seg_in.B, seg_in.D) = 0
    /\ Orient(seg_in.A, seg_in.C, seg_in.D) = 0
    /\ Orient(seg_in.B, seg_in.C, seg_in.D) = 0
\* AB and CD cross at a point interior to both: A and B lie strictly on
\* opposite sides of the line CD, and C and D of the line AB
SegCrossProperly ==
    /\ Orient(seg_in.C, seg_in.D, seg_in.A) * Orient(seg_in.C, seg_in.D, seg_in.B) < 0
    /\ Orient(seg_in.A, seg_in.B, seg_in.C) * Orient(seg_in.A, seg_in.B, seg_in.D) < 0

\* C13: intersect(A, B, C, D) is false whenever the four points lie on one
\* line (overlapping collinear segments and shared endpoints included), and
\* true for every pair of segments that cross properly at an interior point
\* of both.
C13_StrictOrientationTest ==
    SegCalled("intersect") =>
        /\ SegCollinear => seg_call.result = FALSE
        /\ SegCrossProperly => seg_call.result = TRUE

\* the call on two collinear segments that overlap and share an endpoint
C13_Witness ==
    /\ SegCalled("intersect")
    /\ seg_in = [A |-> Pt(0, 0), B |-> Pt(5, 5), C |-> Pt(3, 3), D |-> Pt(5, 5)]
    /\ SegCollinear
    /\ seg_call.result = FALSE

\* len_sq^2 times the squared distance from p to the point a + (k / len_sq) ab
\* of the segment, k = 0 .. len_sq; the foot of the perpendicular from p, where
\* it falls on the segment, is one of these points
SegSampleDist2(p, a, b, k) ==
    LET len_sq == Dist2(a, b)
        qx == len_sq * (p.x - a.x) - k * (b.x - a.x)
        qy == len_sq * (p.y - a.y) - k * (b.y - a.y)
    IN  qx * qx + qy * qy
\* the squared distance from p to the nearest point of the closed segment
\* [a, b], a # b, in whole square millimetres
SegNearest2(p, a, b) ==
    LET len_sq == Dist2(a, b)
    IN  MinOf({SegSampleDist2(p, a, b, k) : k \in 0..len_sq}) \div (len_sq * len_sq)

\* C14: dist_point_segment(p, a, b) is the distance from p to the nearest
\* point of the closed segment [a, b]: where the projection falls before a
\* or beyond b it is the distance to that endpoint, it is |p - a| when
\* a = b, and dist_point_segment((5,5), (0,0), (10,0)) = 5.
C14_DistanceToClosedSegment ==
    SegCalled("dist_point_segment") =>
        LET p == seg_in.A
            a == seg_in.B
            b == seg_in.C
            t_num == (p.x - a.x) * (b.x - a.x) + (p.y - a.y) * (b.y - a.y)
        IN  /\ a = b => seg_call.result = Dist2(p, a)
            /\ a # b =>
                  /\ seg_call.result = SegNearest2(p, a, b)
                  /\ t_num <= 0 => seg_call.result = Dist2(p, a)
                  /\ t_num >= Dist2(a, b) => seg_call.result = Dist2(p, b)
            /\ (p = Pt(5, 5) /\ a = Pt(0, 0) /\ b = Pt(10, 0)) => seg_call.result = 5 * 5

\* the call of the example, whose perpendicular falls inside the segment
C14_Witness ==
    /\ SegCalled("dist_point_segment")
    /\ seg_in.A = Pt(5, 5) /\ seg_in.B = Pt(0, 0) /\ seg_in.C = Pt(10, 0)
    /\ seg_call.result = 25
    /\ seg_call.result < Dist2(seg_in.A, seg_in.B)
    /\ seg_call.result < Dist2(seg_in.A, seg_in.C)

(***************************************************************************)
(* configs: LegModel and its four variants                                 *)
(*                                                                         *)
(* A model instance is a record of its attributes.  lengths holds the      *)
(* internal link lengths (l1 .. l5, l_thigh, l_crank, l_shin), parameters  *)
(* the map label -> [value, min, max]; offsets are in radians.             *)
(***************************************************************************)
LegKinds == {"SerialLeg", "PantographLeg", "FiveBarRearLeg", "FiveBarFrontLeg"}

\* Python's empty dict
EmptyDict == [k \in {} |-> None]

SerialParameters ==
    [k \in {"L1 (S1->Knee)", "L2 (Knee->Foot)"} |->
        IF k = "L1 (S1->Knee)" THEN <<50, 10, 105>> ELSE <<95, 10, 105>>]
PantographParameters ==
    [k \in {"L_Thigh (S2->Knee)", "L_Crank (S2->Link)", "L_Shin (Knee->Foot)"} |->
        IF k = "L_Thigh (S2->Knee)" THEN <<95, 10, 105>>
        ELSE IF k = "L_Crank (S2->Link)" THEN <<10, 10, 55>>
        ELSE <<95, 10, 95>>]
FiveBarRearParameters ==
    [k \in {"L1 (S1->A)", "L2 (A->B)", "L3 (S2->C)", "L4 (B->C)", "L5 (Ext. C)"} |->
        IF k = "L3 (S2->C)" THEN <<50, 10, 105>>
        ELSE IF k = "L5 (Ext. C)" THEN <<95, 10, 105>>
        ELSE <<45, 10, 105>>]
FiveBarFrontParameters ==
    [k \in {"L1 (S1->A)", "L2 (S2->B)", "L3 (B->C)", "L4 (A->C)", "L5 (Ext. C)"} |->
        IF k = "L3 (B->C)" THEN <<50, 10, 105>>
        ELSE IF k = "L5 (Ext. C)" THEN <<95, 10, 105>>
        ELSE <<45, 10, 105>>]

\* the assignments of update_params, in order: <<key read, attribute set>>
ParamAttrs(kind) ==
    CASE kind = "SerialLeg" ->
            << <<"L1 (S1->Knee)", "l1">>, <<"L2 (Knee->Foot)", "l2">> >>
      [] kind = "PantographLeg" ->
            << <<"L_Thigh (S2->Knee)", "l_thigh">>, <<"L_Crank (S2->Link)", "l_crank">>,
               <<"L_Shin (Knee->Foot)", "l_shin">> >>
      [] kind = "FiveBarRearLeg" ->
            << <<"L1 (S1->A)", "l1">>, <<"L2 (A->B)", "l2">>, <<"L3 (S2->C)", "l3">>,
               <<"L4 (B->C)", "l4">>, <<"L5 (Ext. C)", "l5">> >>
      [] kind = "FiveBarFrontLeg" ->
            << <<"L1 (S1->A)", "l1">>, <<"L2 (S2->B)", "l2">>, <<"L3 (B->C)", "l3">>,
               <<"L4 (A->C)", "l4">>, <<"L5 (Ext. C)", "l5">> >>

SetAttr(f, a, v) == [x \in DOMAIN f \cup {a} |-> IF x = a THEN v ELSE f[x]]

\* the assignments from the k-th on; a key the mapping lacks raises KeyError
\* and leaves the earlier assignments done
RECURSIVE AssignParams(_, _, _, _)
AssignParams(lengths, attrs, params, k) ==
    IF k > Len(attrs) THEN [lengths |-> lengths, raised |-> FALSE]
    ELSE IF attrs[k][1] \notin DOMAIN params THEN [lengths |-> lengths, raised |-> TRUE]
    ELSE AssignParams(SetAttr(lengths, attrs[k][2], params[attrs[k][1]]), attrs, params, k + 1)

\* mutant: a key the mapping lacks leaves its length as it was, silently
RECURSIVE AssignParamsKeepMissing(_, _, _, _)
AssignParamsKeepMissing(lengths, attrs, params, k) ==
    IF k > Len(attrs) THEN [lengths |-> lengths, raised |-> FALSE]
    ELSE IF attrs[k][1] \notin DOMAIN params
         THEN AssignParamsKeepMissing(lengths, attrs, params, k + 1)
    ELSE AssignParamsKeepMissing(SetAttr(lengths, attrs[k][2], params[attrs[k][1]]),
                                 attrs, params, k + 1)
update_params_keep_missing(m, params) ==
    LET r == AssignParamsKeepMissing(m.lengths, ParamAttrs(m.kind), params, 1)
    IN  [model |-> [m EXCEPT !.lengths = r.lengths], raised |-> r.raised]

\* update_params(params) on model m: the model after the call, and whether
\* the call raised
update_params(m, params) ==
    LET r == AssignParams(m.lengths, ParamAttrs(m.kind), params, 1)
    IN  [model |-> [m EXCEPT !.lengths = r.lengths], raised |-> r.raised]

\* LegModel.__init__
LegModelInit(kind, name) ==
    [kind |-> kind, name |-> name, parameters |-> EmptyDict, lengths |-> EmptyDict,
     offset_t1 |-> 0, offset_t2 |-> 0, collision_threshold |-> 5]

\* {k: v[0] for k, v in self.parameters.items()}
ParameterValues(parameters) == [k \in DOMAIN parameters |-> parameters[k][1]]

\* the constructors of the four variants
SerialLeg ==
    LET m0 == [LegModelInit("SerialLeg", "Serial") EXCEPT !.parameters = SerialParameters]
        m1 == update_params(m0, ParameterValues(m0.parameters)).model
    IN  [k \in DOMAIN m1 \cup {"base_pos"} |->
            IF k = "base_pos" THEN Pt(0, 0)
            ELSE IF k = "collision_threshold" THEN 10
            ELSE m1[k]]
ServoLeg(kind, name, parameters) ==
    LET m0 == [LegModelInit(kind, name) EXCEPT !.parameters = parameters]
        m1 == update_params(m0, ParameterValues(m0.parameters)).model
    IN  [k \in DOMAIN m1 \cup {"servo1_pos", "servo2_pos"} |->
            IF k = "servo1_pos" THEN Pt(-15, -10)
            ELSE IF k = "servo2_pos" THEN Pt(0, 0)
            ELSE IF k = "collision_threshold" THEN 10
            ELSE m1[k]]
PantographLeg == ServoLeg("PantographLeg", "Pantógrafo (Coaxial)", PantographParameters)
FiveBarRearLeg == ServoLeg("FiveBarRearLeg", "Five-Bar (Tração Traseira)", FiveBarRearParameters)
FiveBarFrontLeg == ServoLeg("FiveBarFrontLeg", "Five-Bar (Tração dianteira)", FiveBarFrontParameters)
NewLeg(kind) ==
    CASE kind = "SerialLeg" -> SerialLeg
      [] kind = "PantographLeg" -> PantographLeg
      [] kind = "FiveBarRearLeg" -> FiveBarRearLeg
      [] kind = "FiveBarFrontLeg" -> FiveBarFrontLeg

\* what forward_kinematics returns for an invalid pose
InvalidPose == [foot |-> None, joints |-> EmptyDict]

\* mutant: the shin is laid out at theta1 + theta2
SerialLeg_forward_kinematics_sum(m, theta1_deg, theta2_deg) ==
    LET theta1     == radians(theta1_deg) + m.offset_t1
        theta2     == radians(theta2_deg) + m.offset_t2
        point_knee == PAdd(m.base_pos, pol2cart(m.lengths.l1, theta1))
        point_foot == PAdd(point_knee, pol2cart(m.lengths.l2, theta1 + theta2))
    IN  [foot |-> point_foot,
         joints |-> [Base |-> m.base_pos, Knee |-> point_knee, Foot |-> point_foot]]

SerialLeg_forward_kinematics(m, theta1_deg, theta2_deg) ==
    LET theta1     == radians(theta1_deg) + m.offset_t1
        theta2     == radians(theta2_deg) + m.offset_t2
        point_knee == PAdd(m.base_pos, pol2cart(m.lengths.l1, theta1))
        point_foot == PAdd(point_knee, pol2cart(m.lengths.l2, theta1 - theta2))
    IN  [foot |-> point_foot,
         joints |-> [Base |-> m.base_pos, Knee |-> point_knee, Foot |-> point_foot]]

PantographLeg_forward_kinematics(m, theta1_deg, theta2_deg) ==
    LET theta1       == radians(theta1_deg) + m.offset_t1
        theta2       == radians(theta2_deg) + m.offset_t2
        vec_thigh    == pol2cart(m.lengths.l_thigh, theta1)
        point_knee   == PAdd(m.servo2_pos, vec_thigh)
        point_thigh_connect == PAdd(m.servo2_pos, pol2cart(35, theta1))
        vec_crank    == pol2cart(m.lengths.l_crank, theta2)
        point_crank  == PAdd(m.servo2_pos, vec_crank)
        point_mount  == PAdd(point_crank, vec_thigh)
        vec_shin_dir == PSub(point_mount, point_knee)
        point_foot   == ExtendAlong(point_knee, vec_shin_dir, m.lengths.l_shin)
    IN  IF NormIsZero(vec_shin_dir) THEN InvalidPose
        ELSE [foot |-> point_foot,
              joints |-> [S1 |-> m.servo1_pos, S2 |-> m.servo2_pos,
                          Knee |-> point_knee, CrankTip |-> point_crank,
                          Mount |-> point_mount, Foot |-> point_foot,
                          ThighConnect |-> point_thigh_connect]]

\* mutant: the closure joint B is the other crossing of the two circles
FiveBarRearLeg_forward_kinematics_other_branch(m, theta1_deg, theta2_deg) ==
    LET theta1  == radians(theta1_deg) + m.offset_t1
        theta2  == radians(theta2_deg) + m.offset_t2
        point_a == PAdd(m.servo1_pos, pol2cart(m.lengths.l1, theta1))
        point_c == PAdd(m.servo2_pos, pol2cart(m.lengths.l3, theta2))
        closure == get_circle_intersection(point_a, m.lengths.l2, point_c, m.lengths.l4, 1)
        point_b == FracPoint(closure)
        vec_cb  == PSub(point_c, point_b)
        point_foot == ExtendAlong(point_c, vec_cb, m.lengths.l5)
    IN  IF closure = None THEN InvalidPose
        ELSE IF NormIsZero(vec_cb) THEN InvalidPose
        ELSE [foot |-> point_foot,
              joints |-> [S1 |-> m.servo1_pos, S2 |-> m.servo2_pos, A |-> point_a,
                          B |-> point_b, C |-> point_c, Foot |-> point_foot]]

FiveBarRearLeg_forward_kinematics(m, theta1_deg, theta2_deg) ==
    LET theta1  == radians(theta1_deg) + m.offset_t1
        theta2  == radians(theta2_deg) + m.offset_t2
        point_a == PAdd(m.servo1_pos, pol2cart(m.lengths.l1, theta1))
        point_c == PAdd(m.servo2_pos, pol2cart(m.lengths.l3, theta2))
        closure == get_circle_intersection(point_a, m.lengths.l2, point_c, m.lengths.l4, -1)
        point_b == FracPoint(closure)
        vec_cb  == PSub(point_c, point_b)
        point_foot == ExtendAlong(point_c, vec_cb, m.lengths.l5)
    IN  IF closure = None THEN InvalidPose
        ELSE IF NormIsZero(vec_cb) THEN InvalidPose
        ELSE [foot |-> point_foot,
              joints |-> [S1 |-> m.servo1_pos, S2 |-> m.servo2_pos, A |-> point_a,
                          B |-> point_b, C |-> point_c, Foot |-> point_foot]]

FiveBarFrontLeg_forward_kinematics(m, theta1_deg, theta2_deg) ==
    LET theta1  == radians(theta1_deg) + m.offset_t1
        theta2  == radians(theta2_deg) + m.offset_t2
        point_a == PAdd(m.servo1_pos, pol2cart(m.lengths.l1, theta1))
        point_b == PAdd(m.servo2_pos, pol2cart(m.lengths.l2, theta2))
        closure == get_circle_intersection(point_a, m.lengths.l4, point_b, m.lengths.l3, -1)
        point_c == FracPoint(closure)
        vec_ca  == PSub(point_c, point_a)
        point_foot == ExtendAlong(point_c, vec_ca, m.lengths.l5)
    IN  IF closure = None THEN InvalidPose
        ELSE IF NormIsZero(vec_ca) THEN InvalidPose
        ELSE [foot |-> point_foot,
              joints |-> [S1 |-> m.servo1_pos, S2 |-> m.servo2_pos, A |-> point_a,
                          B |-> point_b, C |-> point_c, Foot |-> point_foot]]

forward_kinematics(m, theta1_deg, theta2_deg) ==
    CASE m.kind = "SerialLeg" -> SerialLeg_forward_kinematics(m, theta1_deg, theta2_deg)
      [] m.kind = "PantographLeg" -> PantographLeg_forward_kinematics(m, theta1_deg, theta2_deg)
      [] m.kind = "FiveBarRearLeg" -> FiveBarRearLeg_forward_kinematics(m, theta1_deg, theta2_deg)
      [] m.kind = "FiveBarFrontLeg" -> FiveBarFrontLeg_forward_kinematics(m, theta1_deg, theta2_deg)

\* FiveBarRearLeg._hits_servo and FiveBarFrontLeg._hits_servo (the same code)
hits_servo(m, segment, servo_pos) ==
    IF NormIsZero(PSub(segment[1], servo_pos)) \/ NormIsZero(PSub(segment[2], servo_pos))
    THEN FALSE
    ELSE DistBelow(dist_point_segment(servo_pos, segment[1], segment[2]),
                   m.collision_threshold)

\* mutant: the distance along X alone is compared with the threshold
SerialLeg_check_collisions_x_only(m, joints) ==
    Abs(joints.Foot.x - joints.Base.x) < m.collision_threshold

SerialLeg_check_collisions(m, joints) ==
    DistBelow(Norm2(PSub(joints.Foot, joints.Base)), m.collision_threshold)

\* mutant: the crank may come up to the thigh, without the margin of 10
PantographLeg_check_collisions_no_margin(m, joints) ==
    LET vec_thigh == PSub(joints.Knee, joints.S2)
        vec_crank == PSub(joints.CrankTip, joints.S2)
        ang_s1    == degrees(arctan2(vec_thigh.y, vec_thigh.x))
        ang_s2    == degrees(arctan2(vec_crank.y, vec_crank.x))
    IN  IF ang_s1 < 80 THEN TRUE
        ELSE IF ang_s1 - ang_s2 > 170 THEN TRUE
        ELSE IF ang_s2 > ang_s1 THEN TRUE
        ELSE FALSE

PantographLeg_check_collisions(m, joints) ==
    LET vec_thigh == PSub(joints.Knee, joints.S2)
        vec_crank == PSub(joints.CrankTip, joints.S2)
        ang_s1    == degrees(arctan2(vec_thigh.y, vec_thigh.x))
        ang_s2    == degrees(arctan2(vec_crank.y, vec_crank.x))
    IN  IF ang_s1 < 80 THEN TRUE
        ELSE IF ang_s1 - ang_s2 > 170 THEN TRUE
        ELSE IF ang_s2 > ang_s1 - 10 THEN TRUE
        ELSE FALSE

\* mutant: the links S2-C and A-B are not checked against each other
FiveBarRearLeg_check_collisions_two_pairs(m, joints) ==
    LET seg_s1_a   == <<joints.S1, joints.A>>
        seg_s2_c   == <<joints.S2, joints.C>>
        seg_a_b    == <<joints.A, joints.B>>
        seg_b_c    == <<joints.B, joints.C>>
        seg_c_foot == <<joints.C, joints.Foot>>
        segments   == {seg_s1_a, seg_s2_c, seg_a_b, seg_b_c, seg_c_foot}
        servos     == {joints.S1, joints.S2}
    IN  \/ \E seg \in segments : \E servo \in servos : hits_servo(m, seg, servo)
        \/ DistBelow(min_dist_segments(seg_s1_a, seg_s2_c), m.collision_threshold)
        \/ DistBelow(min_dist_segments(seg_s1_a, seg_b_c), m.collision_threshold)

FiveBarRearLeg_check_collisions(m, joints) ==
    LET seg_s1_a   == <<joints.S1, joints.A>>
        seg_s2_c   == <<joints.S2, joints.C>>
        seg_a_b    == <<joints.A, joints.B>>
        seg_b_c    == <<joints.B, joints.C>>
        seg_c_foot == <<joints.C, joints.Foot>>
        segments   == {seg_s1_a, seg_s2_c, seg_a_b, seg_b_c, seg_c_foot}
        servos     == {joints.S1, joints.S2}
    IN  \/ \E seg \in segments : \E servo \in servos : hits_servo(m, seg, servo)
        \/ DistBelow(min_dist_segments(seg_s1_a, seg_s2_c), m.collision_threshold)
        \/ DistBelow(min_dist_segments(seg_s1_a, seg_b_c), m.collision_threshold)
        \/ DistBelow(min_dist_segments(seg_s2_c, seg_a_b), m.collision_threshold)

FiveBarFrontLeg_check_collisions(m, joints) ==
    LET seg_s1_a   == <<joints.S1, joints.A>>
        seg_s2_b   == <<joints.S2, joints.B>>
        seg_a_c    == <<joints.A, joints.C>>
        seg_b_c    == <<joints.B, joints.C>>
        seg_c_foot == <<joints.C, joints.Foot>>
        segments   == {seg_s1_a, seg_s2_b, seg_a_c, seg_b_c, seg_c_foot}
        servos     == {joints.S1, joints.S2}
    IN  \/ \E seg \in segments : \E servo \in servos : hits_servo(m, seg, servo)
        \/ DistBelow(min_dist_segments(seg_s1_a, seg_s2_b), m.collision_threshold)
        \/ DistBelow(min_dist_segments(seg_s1_a, seg_b_c), m.collision_threshold)
        \/ DistBelow(min_dist_segments(seg_s2_b, seg_a_c), m.collision_threshold)

check_collisions(m, joints) ==
    CASE m.kind = "SerialLeg" -> SerialLeg_check_collisions(m, joints)
      [] m.kind = "PantographLeg" -> PantographLeg_check_collisions(m, joints)
      [] m.kind = "FiveBarRearLeg" -> FiveBarRearLeg_check_collisions(m, joints)
      [] m.kind = "FiveBarFrontLeg" -> FiveBarFrontLeg_check_collisions(m, joints)

(***************************************************************************)
(* LegModel.get_workspace                                                  *)
(*                                                                         *)
(* The samples of np.linspace(0, 180, resolution) are rounded to whole     *)
(* degrees (they are whole when resolution - 1 divides 180).  The          *)
(* triangulation of four or more points is scipy's: the area and the lines *)
(* of such a cloud are kept as the cloud they are computed from.  calls is *)
(* the trace of the forward_kinematics calls, kept beside the returned     *)
(* (xs, ys, area, hull_lines).                                             *)
(***************************************************************************)
scan_stop == 180
alpha_threshold_inv == 25

\* np.linspace(0, 180, resolution)
scan_range(resolution) ==
    [k \in 1..resolution |->
        IF k = 1 THEN 0 ELSE RoundDiv(scan_stop * (k - 1), resolution - 1)]

\* mutant: every pose with a foot is kept
ScanKeepsAnyFoot(m, r) == r.foot # None

\* end_effector is not None, and not self.check_collisions(joints)
ScanKeeps(m, r) ==
    IF r.foot # None THEN ~check_collisions(m, r.joints) ELSE FALSE

\* the (theta1, theta2) of the nested loops, in the order the loops visit
\* them: theta1 outer, theta2 inner
ScanLoop(scan) ==
    [n \in 1..(Len(scan) * Len(scan)) |->
        <<scan[((n - 1) \div Len(scan)) + 1], scan[((n - 1) % Len(scan)) + 1]>>]

\* the loops: forward_kinematics on every pair, the feet kept appended to
\* points in the order of the calls
ScanPoints(m, calls) ==
    LET results == [n \in 1..Len(calls) |-> forward_kinematics(m, calls[n][1], calls[n][2])]
    IN  Apply(LAMBDA kept : [k \in 1..Len(kept) |-> kept[k].foot],
              SelectSeq(results, LAMBDA r : ScanKeeps(m, r)))

\* scipy.spatial.Delaunay(points), not evaluated
Delaunay(points) == [delaunay_of |-> points]

\* mutant: a cloud of three points is returned as its triangle
WorkspaceHullFromThree(points) ==
    IF Len(points) < 3
    THEN [area2 |-> 0, hull_lines |-> {}]
    ELSE IF Len(points) = 3
    THEN [area2 |-> TriArea2(points[1], points[2], points[3]),
          hull_lines |-> {<<points[1], points[2]>>, <<points[2], points[3]>>,
                          <<points[1], points[3]>>}]
    ELSE [area2 |-> [area_from |-> Delaunay(points)],
          hull_lines |-> [lines_from |-> Delaunay(points)]]

\* calculate_concave_hull(points_array, alpha_threshold=0.04)
WorkspaceHull(points) ==
    IF Len(points) < 4
    THEN LET h == calculate_concave_hull(points, <<>>, alpha_threshold_inv)
         IN  [area2 |-> h.total_area2, hull_lines |-> h.lines]
    ELSE [area2 |-> [area_from |-> Delaunay(points)],
          hull_lines |-> [lines_from |-> Delaunay(points)]]

\* the returned (xs, ys, area, hull_lines) of a cloud, beside the calls made
WorkspaceResult(points, calls) ==
    IF points = <<>>
    THEN [xs |-> <<>>, ys |-> <<>>, area2 |-> 0, hull_lines |-> {}, calls |-> calls]
    ELSE LET hull == WorkspaceHull(points)
         IN  [xs |-> [k \in 1..Len(points) |-> points[k].x],
              ys |-> [k \in 1..Len(points) |-> points[k].y],
              area2 |-> hull.area2, hull_lines |-> hull.hull_lines,
              calls |-> calls]

get_workspace(m, resolution) ==
    Apply(LAMBDA calls :
              Apply(LAMBDA points : WorkspaceResult(points, calls), ScanPoints(m, calls)),
          Apply(ScanLoop, scan_range(resolution)))

(***************************************************************************)
(* Specification of one LegModel under the calls of its interface.  The    *)
(* model is constructed with any of the four variants and any of the       *)
(* offsets of OffsetChoices; update_params draws each length from the      *)
(* choices of its key (the default, the slider minimum and the lengths of  *)
(* the degenerate closures), in a mapping that holds every key, lacks some *)
(* or holds one more; forward_kinematics draws its angles from the         *)
(* multiples of ThetaStep, get_workspace its resolution from               *)
(* 0 .. MaxResolution.  leg_call holds the last call and its result until  *)
(* the caller is done with it; check_collisions is called on the JointSet  *)
(* a forward_kinematics has just returned.                                 *)
(***************************************************************************)
ThetaStep == 30
MaxResolution == 4
OffsetChoices == {radians(0), radians(30)}
ThetaChoices == {t \in 0..scan_stop : t % ThetaStep = 0}

LengthChoices(kind) ==
    CASE kind = "SerialLeg" ->
            [k \in DOMAIN SerialParameters |->
                IF k = "L1 (S1->Knee)" THEN {10, 50} ELSE {10, 95}]
      [] kind = "PantographLeg" ->
            [k \in DOMAIN PantographParameters |->
                IF k = "L_Thigh (S2->Knee)" THEN {10, 95}
                ELSE IF k = "L_Crank (S2->Link)" THEN {0, 10}
                ELSE {95}]
      [] kind = "FiveBarRearLeg" ->
            [k \in DOMAIN FiveBarRearParameters |->
                IF k = "L1 (S1->A)" THEN {10, 45}
                ELSE IF k = "L2 (A->B)" THEN {25, 45}
                ELSE IF k = "L3 (S2->C)" THEN {10, 50}
                ELSE IF k = "L4 (B->C)" THEN {0, 45}
                ELSE {95}]
      [] kind = "FiveBarFrontLeg" ->
            [k \in DOMAIN FiveBarFrontParameters |->
                IF k = "L1 (S1->A)" THEN {10, 45}
                ELSE IF k = "L2 (S2->B)" THEN {10, 45}
                ELSE IF k = "L3 (B->C)" THEN {25, 50}
                ELSE IF k = "L4 (A->C)" THEN {0, 45}
                ELSE {95}]
\* the mappings update_params is called with: one choice for every key
RECURSIVE ParamProduct(_, _, _)
ParamProduct(attrs, choices, k) ==
    IF k > Len(attrs) THEN {EmptyDict}
    ELSE {SetAttr(params, attrs[k][1], v) :
            params \in ParamProduct(attrs, choices, k + 1), v \in choices[attrs[k][1]]}
ParamChoices(kind) == ParamProduct(ParamAttrs(kind), LengthChoices(kind), 1)
\* mappings that lack one of the keys, or all of them
ParamsLacking(kind) ==
    {[k \in DOMAIN params \ {key} |-> params[k]] :
        params \in ParamChoices(kind), key \in DOMAIN LengthChoices(kind)}
        \cup {EmptyDict}
\* mappings with a key beyond those of the variant, as an optimized
\* configuration holds them
ParamsWithExtra(kind) ==
    {SetAttr(params, "Offset_S1_Deg", 15) : params \in ParamChoices(kind)}
UpdateParamsChoices(kind) ==
    ParamChoices(kind) \cup ParamsLacking(kind) \cup ParamsWithExtra(kind)

LegInit ==
    /\ CircleIdle /\ HullIdle /\ EllipseIdle /\ DashIdle /\ SegIdle /\ LimIdle
    /\ \E kind \in LegKinds : \E o1 \in OffsetChoices, o2 \in OffsetChoices :
          leg = [NewLeg(kind) EXCEPT !.offset_t1 = o1, !.offset_t2 = o2]
    /\ leg_call = Pending

LegUpdateParams(params) ==
    LET r == update_params(leg, params)
    IN  /\ leg_call = Pending
        /\ leg' = r.model
        /\ leg_call' = [op |-> "update_params", params |-> params, raised |-> r.raised]
        /\ UNCHANGED <<circle_vars, hull_vars, ell_vars, dash_vars, seg_vars, lim_vars>>

\* mutant: a query leaves the offsets at zero, as the dashboard's redraw
\* leaves them while the offset controls are hidden
LegAfterQueryOffsetsZeroed(m) == [m EXCEPT !.offset_t1 = 0, !.offset_t2 = 0]

\* self after forward_kinematics, check_collisions or get_workspace: the
\* three read attributes of self and assign local names only
LegAfterQuery(m) == m

\* forward_kinematics, called at any time between two update_params
LegForwardKinematics(theta1, theta2) ==
    /\ leg_call' = [op |-> "forward_kinematics", theta1 |-> theta1, theta2 |-> theta2,
                    result |-> forward_kinematics(leg, theta1, theta2)]
    /\ leg' = LegAfterQuery(leg)
    /\ UNCHANGED <<circle_vars, hull_vars, ell_vars, dash_vars, seg_vars, lim_vars>>

\* check_collisions on the JointSet the last forward_kinematics returned;
\* theta1, theta2 keep the pose the JointSet is of
LegCheckCollisions ==
    /\ leg_call # Pending
    /\ leg_call.op = "forward_kinematics"
    /\ leg_call.result.foot # None
    /\ leg_call' = [op |-> "check_collisions", joints |-> leg_call.result.joints,
                    theta1 |-> leg_call.theta1, theta2 |-> leg_call.theta2,
                    result |-> check_collisions(leg, leg_call.result.joints)]
    /\ leg' = LegAfterQuery(leg)
    /\ UNCHANGED <<circle_vars, hull_vars, ell_vars, dash_vars, seg_vars, lim_vars>>

LegGetWorkspace(resolution) ==
    /\ leg_call' = [op |-> "get_workspace", resolution |-> resolution,
                    result |-> get_workspace(leg, resolution)]
    /\ leg' = LegAfterQuery(leg)
    /\ UNCHANGED <<circle_vars, hull_vars, ell_vars, dash_vars, seg_vars, lim_vars>>

\* the caller is done with the result of the last call
LegReturn ==
    /\ leg_call # Pending
    /\ leg_call' = Pending
    /\ UNCHANGED <<circle_vars, hull_vars, ell_vars, leg, dash_vars, seg_vars, lim_vars>>

LegNext ==
    \/ LegReturn
    \/ \E params \in UpdateParamsChoices(leg.kind) : LegUpdateParams(params)
    \/ \E theta1 \in ThetaChoices, theta2 \in ThetaChoices : LegForwardKinematics(theta1, theta2)
    \/ LegCheckCollisions
    \/ \E resolution \in 0..MaxResolution : LegGetWorkspace(resolution)

SpecLeg == LegInit /\ [][LegNext]_vars

LegCalled(op) == leg_call # Idle /\ leg_call # Pending /\ leg_call.op = op
ServoKinds == {"PantographLeg", "FiveBarRearLeg", "FiveBarFrontLeg"}

\* the closure circles of a five-bar pose do not meet
ClosureInfeasible(m, theta1_deg, theta2_deg) ==
    LET theta1 == radians(theta1_deg) + m.offset_t1
        theta2 == radians(theta2_deg) + m.offset_t2
        elbow1 == PAdd(m.servo1_pos, pol2cart(m.lengths.l1, theta1))
    IN  CASE m.kind = "FiveBarRearLeg" ->
                CircleInfeasible(Dist2(elbow1, PAdd(m.servo2_pos, pol2cart(m.lengths.l3, theta2))),
                                 m.lengths.l2, m.lengths.l4)
          [] m.kind = "FiveBarFrontLeg" ->
                CircleInfeasible(Dist2(elbow1, PAdd(m.servo2_pos, pol2cart(m.lengths.l2, theta2))),
                                 m.lengths.l4, m.lengths.l3)
          [] OTHER -> FALSE
\* the direction along which the foot is extended has norm below 1e-6: the
\* link from the closure joint (five-bar), the crank vector (pantograph)
DirectionTiny(m, theta1_deg, theta2_deg) ==
    CASE m.kind = "PantographLeg" ->
            NormIsZero(pol2cart(m.lengths.l_crank, radians(theta2_deg) + m.offset_t2))
      [] m.kind \in {"FiveBarRearLeg", "FiveBarFrontLeg"} ->
            ~ClosureInfeasible(m, theta1_deg, theta2_deg) /\ m.lengths.l4 = 0
      [] OTHER -> FALSE

\* C1: forward_kinematics of FiveBarRear, FiveBarFront and Pantograph returns
\* (None, None), the foot and the JointSet both None, whenever the closure
\* circles do not meet or the direction of the foot extension has norm below
\* 1e-6.
C1_InvalidPoseReturnsNoneNone ==
    (LegCalled("forward_kinematics") /\ leg.kind \in ServoKinds
        /\ \/ ClosureInfeasible(leg, leg_call.theta1, leg_call.theta2)
           \/ DirectionTiny(leg, leg_call.theta1, leg_call.theta2))
    => (leg_call.result.foot = None /\ leg_call.result.joints = None)

\* the JointSet returned with a None foot is never None
C1_JointsNeverNone ==
    (LegCalled("forward_kinematics") /\ leg_call.result.foot = None)
        => leg_call.result.joints = EmptyDict

\* the k-th forward_kinematics call of the scan, its result, and whether the
\* scan has to keep its foot
ScanCallResult(k) ==
    forward_kinematics(leg, leg_call.result.calls[k][1], leg_call.result.calls[k][2])
ScanCallKept(k) ==
    /\ ScanCallResult(k).foot # None
    /\ ~check_collisions(leg, ScanCallResult(k).joints)
ScanRank(k) == Cardinality({i \in 1..k : ScanCallKept(i)})
\* s is the nearest whole degree to the k-th of n evenly spaced samples of
\* [0, 180] that include both ends
EvenSample(s, k, n) == 2 * Abs(s * (n - 1) - scan_stop * (k - 1)) <= n - 1
\* the theta1 of the i-th run of the calls
ScanSample(i) == leg_call.result.calls[(i - 1) * leg_call.resolution + 1][1]
\* the calls are the pairs of the samples, theta1-major and theta2-minor
ScanPairs ==
    LET n == leg_call.resolution
    IN  /\ Len(leg_call.result.calls) = n * n
        /\ \A i \in 1..n : \A j \in 1..n :
              leg_call.result.calls[(i - 1) * n + j] = <<ScanSample(i), ScanSample(j)>>
\* the cloud holds, in the order of the calls, the foot of every call that
\* returned a foot with a JointSet that does not collide, and nothing else
ScanCloud ==
    LET total == Len(leg_call.result.calls)
    IN  /\ Len(leg_call.result.xs) = ScanRank(total)
        /\ Len(leg_call.result.ys) = ScanRank(total)
        /\ \A k \in 1..total :
              ScanCallKept(k) =>
                  Pt(leg_call.result.xs[ScanRank(k)], leg_call.result.ys[ScanRank(k)])
                      = ScanCallResult(k).foot

\* C2 as stated: get_workspace(resolution) calls forward_kinematics on
\* exactly resolution x resolution pairs of the same `resolution` evenly
\* spaced samples of [0, 180], both ends included, theta1-major; the cloud
\* holds exactly the feet of the pairs with a foot and no collision, in order.
C2_ScanBothEndsIncluded ==
    LegCalled("get_workspace") =>
        /\ ScanPairs
        /\ leg_call.resolution > 0 =>
              (ScanSample(1) = 0 /\ ScanSample(leg_call.resolution) = scan_stop)
        /\ \A k \in 1..leg_call.resolution :
              EvenSample(ScanSample(k), k, leg_call.resolution)
        /\ ScanCloud

\* C2, amended: the same, with both ends of [0, 180] among the samples for
\* resolution >= 2 only; for resolution = 1 the one sample is 0 (180 is not
\* sampled), and for resolution = 0 there is no call and no point.
C2_ScanAmended ==
    LegCalled("get_workspace") =>
        /\ ScanPairs
        /\ leg_call.resolution >= 2 =>
              /\ ScanSample(1) = 0 /\ ScanSample(leg_call.resolution) = scan_stop
              /\ \A k \in 1..leg_call.resolution :
                    EvenSample(ScanSample(k), k, leg_call.resolution)
        /\ leg_call.resolution = 1 => ScanSample(1) = 0
        /\ ScanCloud

\* a scan of resolution >= 2 with a pose without foot, a pose that collides
\* and a pose whose foot is kept after both
C2_Witness ==
    /\ LegCalled("get_workspace") /\ leg_call.resolution >= 2
    /\ \E a, b, c \in 1..Len(leg_call.result.calls) :
          /\ a < c /\ b < c
          /\ ScanCallResult(a).foot = None
          /\ ScanCallResult(b).foot # None
          /\ check_collisions(leg, ScanCallResult(b).joints)
          /\ ScanCallKept(c)

\* C15: get_workspace returns area 0 and an empty boundary both when the
\* scan keeps no point and when it keeps 1 to 3 points, which is what
\* calculate_concave_hull returns, without raising, for a cloud of fewer
\* than 4 points.
C15_FewPointsEmptyHull ==
    LegCalled("get_workspace") =>
        LET kept == Len(leg_call.result.xs)
        IN  /\ kept = ScanRank(Len(leg_call.result.calls))
            /\ kept = Len(leg_call.result.ys)
            /\ kept < 4 =>
                  /\ leg_call.result.area2 = 0
                  /\ leg_call.result.hull_lines = {}

\* a scan of four or more poses that kept three feet, not on one line
C15_Witness ==
    /\ LegCalled("get_workspace")
    /\ leg_call.resolution >= 2
    /\ Len(leg_call.result.xs) = 3
    /\ TriArea2(Pt(leg_call.result.xs[1], leg_call.result.ys[1]),
                Pt(leg_call.result.xs[2], leg_call.result.ys[2]),
                Pt(leg_call.result.xs[3], leg_call.result.ys[3])) > 0
    /\ leg_call.result.area2 = 0
    /\ leg_call.result.hull_lines = {}

\* |p - q| = length to the millimetre grid, on which both points are rounded
LengthOnGrid(p, q, length) ==
    /\ Dist2(p, q) >= (length - 1) * (length - 1)
    /\ Dist2(p, q) <= (length + 1) * (length + 1)

\* C16: Serial forward kinematics always succeeds and yields
\* Knee = Base + L1 (cos t1, sin t1) and Foot = Knee + L2 (cos(t1 - t2),
\* sin(t1 - t2)) with t_i = radians(theta_i) + offset_i; hence
\* |Knee - Base| = L1 and |Foot - Knee| = L2 for every input, and
\* forward_kinematics(90, 0) with L1 = 50, L2 = 95 and zero offsets gives
\* Knee = (0, 50), Foot = (0, 145).
C16_SerialForwardKinematics ==
    (LegCalled("forward_kinematics") /\ leg.kind = "SerialLeg") =>
        LET t1    == radians(leg_call.theta1) + leg.offset_t1
            t2    == radians(leg_call.theta2) + leg.offset_t2
            L1    == leg.lengths.l1
            L2    == leg.lengths.l2
            Base  == leg.base_pos
            Knee  == Pt(Base.x + RoundDiv(L1 * cos(t1), TrigScale),
                        Base.y + RoundDiv(L1 * sin(t1), TrigScale))
            Foot  == Pt(Knee.x + RoundDiv(L2 * cos(t1 - t2), TrigScale),
                        Knee.y + RoundDiv(L2 * sin(t1 - t2), TrigScale))
        IN  /\ leg_call.result.foot # None
            /\ leg_call.result.foot = Foot
            /\ leg_call.result.joints = [Base |-> Base, Knee |-> Knee, Foot |-> Foot]
            /\ LengthOnGrid(leg_call.result.joints.Knee, leg_call.result.joints.Base, L1)
            /\ LengthOnGrid(leg_call.result.joints.Foot, leg_call.result.joints.Knee, L2)
            /\ (leg_call.theta1 = 90 /\ leg_call.theta2 = 0 /\ L1 = 50 /\ L2 = 95
                    /\ leg.offset_t1 = 0 /\ leg.offset_t2 = 0) =>
                   /\ leg_call.result.joints.Knee = Pt(0, 50)
                   /\ leg_call.result.foot = Pt(0, 145)

\* the call of the example
C16_Witness ==
    /\ LegCalled("forward_kinematics") /\ leg.kind = "SerialLeg"
    /\ leg_call.theta1 = 90 /\ leg_call.theta2 = 0
    /\ leg.lengths.l1 = 50 /\ leg.lengths.l2 = 95
    /\ leg.offset_t1 = 0 /\ leg.offset_t2 = 0
    /\ leg_call.result.joints.Knee = Pt(0, 50)
    /\ leg_call.result.foot = Pt(0, 145)

\* the angles, in degrees, of the thigh Knee - S2 and of the crank
\* CrankTip - S2 of the JointSet that check_collisions was called on
ThighAngle ==
    degrees(arctan2(leg_call.joints.Knee.y - leg_call.joints.S2.y,
                    leg_call.joints.Knee.x - leg_call.joints.S2.x))
CrankAngle ==
    degrees(arctan2(leg_call.joints.CrankTip.y - leg_call.joints.S2.y,
                    leg_call.joints.CrankTip.x - leg_call.joints.S2.x))

RequiredKeys(kind) == {ParamAttrs(kind)[k][1] : k \in 1..Len(ParamAttrs(kind))}

Queries == {"forward_kinematics", "check_collisions", "get_workspace"}

SerialCollidesIffFootNearBase ==
    (LegCalled("check_collisions") /\ leg.kind = "SerialLeg") =>
        (leg_call.result = TRUE <=>
            Dist2(leg_call.joints.Foot, leg_call.joints.Base) < 10 * 10)
\* a scan of the Serial variant with the default L1 = 50, L2 = 95: every
\* scanned foot is at least 45 mm from the base and is kept
SerialDefaultScanKeepsAll ==
    (LegCalled("get_workspace") /\ leg.kind = "SerialLeg"
        /\ leg.lengths.l1 = 50 /\ leg.lengths.l2 = 95) =>
        /\ \A k \in 1..Len(leg_call.result.calls) :
              /\ ScanCallResult(k).foot # None
              /\ Dist2(ScanCallResult(k).foot, leg.base_pos) >= 45 * 45
              /\ ~check_collisions(leg, ScanCallResult(k).joints)
        /\ Len(leg_call.result.xs) = Len(leg_call.result.calls)
        /\ Len(leg_call.result.calls) = leg_call.resolution * leg_call.resolution

RigidSegments(m, joints) ==
    CASE m.kind = "PantographLeg" ->
            {<<joints.S1, joints.ThighConnect>>, <<joints.S2, joints.Knee>>,
             <<joints.S2, joints.CrankTip>>, <<joints.CrankTip, joints.Mount>>,
             <<joints.Knee, joints.Foot>>, <<joints.Knee, joints.Mount>>}
      [] m.kind = "FiveBarRearLeg" ->
            {<<joints.S1, joints.A>>, <<joints.S2, joints.C>>, <<joints.A, joints.B>>,
             <<joints.B, joints.C>>, <<joints.C, joints.Foot>>}
      [] m.kind = "FiveBarFrontLeg" ->
            {<<joints.S1, joints.A>>, <<joints.S2, joints.B>>, <<joints.A, joints.C>>,
             <<joints.B, joints.C>>, <<joints.C, joints.Foot>>}
\* the segment, with no end on the servo, passes closer than 10 mm to it
PassesServo(seg, servo) ==
    /\ Norm2(PSub(seg[1], servo)) > 0
    /\ Norm2(PSub(seg[2], servo)) > 0
    /\ dist_point_segment(servo, seg[1], seg[2]) < 10 * 10

\* C8: for the Pantograph and both five-bar variants, check_collisions
\* returns true whenever some rigid segment of the pose, neither of whose
\* endpoints is within 1e-3 of the servo, passes closer than 10 mm to servo
\* pivot S1 or S2.
C8_SegmentNearServoCollides ==
    (LegCalled("check_collisions") /\ leg.kind \in ServoKinds) =>
        ((\E seg \in RigidSegments(leg, leg_call.joints) :
            \E servo \in {leg_call.joints.S1, leg_call.joints.S2} :
                PassesServo(seg, servo))
         => leg_call.result = TRUE)

\* the same for the two five-bar variants alone
C8_FiveBarSegmentNearServoCollides ==
    (LegCalled("check_collisions") /\ leg.kind \in {"FiveBarRearLeg", "FiveBarFrontLeg"}) =>
        ((\E seg \in RigidSegments(leg, leg_call.joints) :
            \E servo \in {leg_call.joints.S1, leg_call.joints.S2} :
                PassesServo(seg, servo))
         => leg_call.result = TRUE)

\* the labels that check_collisions of the two five-bar variants reads
FiveBarLabels == {"S1", "S2", "A", "B", "C", "Foot"}
\* the foot lies at `length` from `joint`, on the ray that leaves `joint`
\* away from `behind`, to the millimetre grid
ExtendsLink(foot, joint, behind, length) ==
    LET out   == PSub(foot, joint)
        link  == PSub(joint, behind)
        cross == out.x * link.y - out.y * link.x
    IN  /\ LengthOnGrid(foot, joint, length)
        /\ Dot(out, link) > 0
        /\ cross * cross <= Norm2(link)
\* the joint lies on the side of the line from centre p1 to centre p2 where
\* get_circle_intersection puts its chirality -1 solution (the left of
\* p1 -> p2), or on that line to the millimetre grid
OnMinusOneSide(p1, p2, joint) ==
    \/ Orient(p1, p2, joint) >= 0
    \/ Orient(p1, p2, joint) * Orient(p1, p2, joint) <= Dist2(p1, p2)

\* C21: whenever a five-bar forward_kinematics succeeds, the JointSet keeps
\* the rigid link lengths and the fixed closure branch.  FiveBarRear:
\* |A - S1| = L1, |C - S2| = L3, |B - A| = L2, |B - C| = L4 and
\* Foot = C + L5 unit(C - B); FiveBarFront: |A - S1| = L1, |B - S2| = L2,
\* |C - A| = L4, |C - B| = L3 and Foot = C + L5 unit(C - A); the closure
\* joint is the chirality -1 solution of get_circle_intersection for every
\* input, and the JointSet holds exactly the labels S1, S2, A, B, C, Foot
\* that check_collisions reads.
C21_FiveBarRigidLinks ==
    (LegCalled("forward_kinematics") /\ leg.kind \in {"FiveBarRearLeg", "FiveBarFrontLeg"}
        /\ leg_call.result.foot # None) =>
        LET j == leg_call.result.joints
            L == leg.lengths
        IN  /\ DOMAIN j = FiveBarLabels
            /\ j.S1 = leg.servo1_pos /\ j.S2 = leg.servo2_pos
            /\ j.Foot = leg_call.result.foot
            /\ LengthOnGrid(j.A, j.S1, L.l1)
            /\ leg.kind = "FiveBarRearLeg" =>
                  /\ LengthOnGrid(j.C, j.S2, L.l3)
                  /\ LengthOnGrid(j.B, j.A, L.l2)
                  /\ LengthOnGrid(j.B, j.C, L.l4)
                  /\ ExtendsLink(j.Foot, j.C, j.B, L.l5)
                  /\ j.Foot = ExtendAlong(j.C, PSub(j.C, j.B), L.l5)
                  /\ j.B = FracPoint(get_circle_intersection(j.A, L.l2, j.C, L.l4, -1))
                  /\ OnMinusOneSide(j.A, j.C, j.B)
            /\ leg.kind = "FiveBarFrontLeg" =>
                  /\ LengthOnGrid(j.B, j.S2, L.l2)
                  /\ LengthOnGrid(j.C, j.A, L.l4)
                  /\ LengthOnGrid(j.C, j.B, L.l3)
                  /\ ExtendsLink(j.Foot, j.C, j.A, L.l5)
                  /\ j.Foot = ExtendAlong(j.C, PSub(j.C, j.A), L.l5)
                  /\ j.C = FracPoint(get_circle_intersection(j.A, L.l4, j.B, L.l3, -1))
                  /\ OnMinusOneSide(j.A, j.B, j.C)

\* a FiveBarRear pose whose two closure circles cross in two points well
\* apart, with lengths other than the defaults and a calibration offset
C21_Witness ==
    /\ LegCalled("forward_kinematics") /\ leg.kind = "FiveBarRearLeg"
    /\ leg_call.result.foot # None
    /\ leg.lengths # NewLeg(leg.kind).lengths
    /\ leg.offset_t1 # 0
    /\ Orient(leg_call.result.joints.A, leg_call.result.joints.C,
              leg_call.result.joints.B) > 100
    /\ FracPoint(get_circle_intersection(leg_call.result.joints.A, leg.lengths.l2,
                                         leg_call.result.joints.C, leg.lengths.l4, 1))
           # leg_call.result.joints.B

\* the five rigid segments of a five-bar variant, by the labels of their ends
FiveBarSegmentLabels(kind) ==
    IF kind = "FiveBarRearLeg"
    THEN {<<"S1", "A">>, <<"S2", "C">>, <<"A", "B">>, <<"B", "C">>, <<"C", "Foot">>}
    ELSE {<<"S1", "A">>, <<"S2", "B">>, <<"A", "C">>, <<"B", "C">>, <<"C", "Foot">>}
\* the three cross-link pairs of a five-bar variant
CrossLinkLabels(kind) ==
    IF kind = "FiveBarRearLeg"
    THEN {<< <<"S1", "A">>, <<"S2", "C">> >>, << <<"S1", "A">>, <<"B", "C">> >>,
          << <<"S2", "C">>, <<"A", "B">> >>}
    ELSE {<< <<"S1", "A">>, <<"S2", "B">> >>, << <<"S1", "A">>, <<"B", "C">> >>,
          << <<"S2", "B">>, <<"A", "C">> >>}
\* the segment between two labelled joints of the JointSet
SegmentOf(joints, ends) == <<joints[ends[1]], joints[ends[2]]>>
\* (a): a rigid segment with no end on a servo lies closer than 10 mm to it
FiveBarServoHit ==
    \E ends \in FiveBarSegmentLabels(leg.kind) : \E servo \in {"S1", "S2"} :
        PassesServo(SegmentOf(leg_call.joints, ends), leg_call.joints[servo])
\* (b): the two links of a cross-link pair are closer than 10 mm
CrossLinkHit(pair) ==
    min_dist_segments(SegmentOf(leg_call.joints, pair[1]),
                      SegmentOf(leg_call.joints, pair[2])) < 10 * 10

\* C22: five-bar check_collisions returns true if and only if (a) one of
\* the five rigid segments lies closer than 10 mm to servo S1 or S2, a
\* segment/servo pair being skipped when either end of the segment is
\* within 1e-3 of that servo, or (b) one of the three cross-link pairs has
\* min_dist_segments < 10 mm - Rear: (S1-A, S2-C), (S1-A, B-C), (S2-C, A-B);
\* Front: (S1-A, S2-B), (S1-A, B-C), (S2-B, A-C); every checked pair
\* consists of links that share no joint.
C22_FiveBarCollisions ==
    (LegCalled("check_collisions") /\ leg.kind \in {"FiveBarRearLeg", "FiveBarFrontLeg"}) =>
        /\ leg.collision_threshold = 10
        /\ leg_call.result = TRUE <=>
               (FiveBarServoHit \/ \E pair \in CrossLinkLabels(leg.kind) : CrossLinkHit(pair))
        /\ \A pair \in CrossLinkLabels(leg.kind) :
               /\ {pair[1], pair[2]} \subseteq FiveBarSegmentLabels(leg.kind)
               /\ {pair[1][1], pair[1][2]} \cap {pair[2][1], pair[2][2]} = {}

\* a FiveBarRear pose rejected for the links S2-C and A-B alone: no segment
\* passes a servo and the other two pairs keep their distance
C22_Witness ==
    /\ LegCalled("check_collisions") /\ leg.kind = "FiveBarRearLeg"
    /\ leg_call.result = TRUE
    /\ ~FiveBarServoHit
    /\ \A pair \in CrossLinkLabels(leg.kind) :
          CrossLinkHit(pair) <=> pair = << <<"S2", "C">>, <<"A", "B">> >>

(***************************************************************************)
(* dashboard.RobotDashboard                                                *)
(*                                                                         *)
(* The dashboard is a record of its attributes.  current is the key of     *)
(* models that self.current_model refers to.  A slider is the record of    *)
(* the widget's val, valinit, valmin, valmax, valstep and active; the      *)
(* panel has room for every slider the four variants ask for, so each      *)
(* add_slider returns one.  A handler is an operator from the dashboard    *)
(* before the call to the dashboard after it, the callbacks that a         *)
(* set_val inside the handler fires included; drawing leaves no state.     *)
(***************************************************************************)
\* Slider(ax, '', val_min, val_max, valinit=val_init, valstep=...): valinit
\* is put on the step grid counted from valmin and then into the range
SliderValue(valmin, valmax, valstep, val) ==
    LET stepped == valmin + RoundDiv(val - valmin, valstep) * valstep
    IN  IF stepped <= valmin THEN valmin
        ELSE IF stepped >= valmax THEN valmax
        ELSE stepped

add_slider(val_min, val_max, val_init) ==
    LET valstep == IF val_max = 180 THEN 1 ELSE 5
        valinit == SliderValue(val_min, val_max, valstep, val_init)
    IN  [val |-> valinit, valinit |-> valinit, valmin |-> val_min, valmax |-> val_max,
         valstep |-> valstep, active |-> TRUE]

\* self.models, by key
DashboardModels ==
    [label \in {"Serial", "Pantógrafo", "Five-Bar Traseira", "Five-Bar Dianteira"} |->
        CASE label = "Serial" -> NewLeg("SerialLeg")
          [] label = "Pantógrafo" -> NewLeg("PantographLeg")
          [] label = "Five-Bar Traseira" -> NewLeg("FiveBarRearLeg")
          [] label = "Five-Bar Dianteira" -> NewLeg("FiveBarFrontLeg")]

\* the class attributes start_s1_angle and start_s2_angle
start_s1_angle(m) == IF m.kind = "FiveBarRearLeg" THEN 90 ELSE 130
start_s2_angle(m) == IF m.kind = "FiveBarRearLeg" THEN 130 ELSE 90

\* self.current_model, and an assignment to one of its attributes
CurrentModel(d) == d.models[d.current]
SetCurrentModel(d, m) == [d EXCEPT !.models[d.current] = m]

\* redraw: the offsets are zeroed while the offset controls are hidden
redraw(d) ==
    IF ~d.slider_offset1.active
    THEN SetCurrentModel(d, [CurrentModel(d) EXCEPT !.offset_t1 = 0, !.offset_t2 = 0])
    ELSE d

on_slider_change(d) ==
    redraw([d EXCEPT !.theta1 = d.slider_theta1.val, !.theta2 = d.slider_theta2.val])

on_offset_change(d) ==
    IF d.slider_offset1.active
    THEN redraw(SetCurrentModel(d,
            [CurrentModel(d) EXCEPT !.offset_t1 = radians(d.slider_offset1.val),
                                    !.offset_t2 = radians(d.slider_offset2.val)]))
    ELSE d

\* int(val) of a slider with valstep 1
on_res_change(d, val) == [d EXCEPT !.sim_resolution = val]

\* mutant: the stored workspace is drawn again, not computed again
calc_workspace_redraw_only(d) == redraw(d)

calc_workspace(d) ==
    Apply(LAMBDA results :
              redraw([d EXCEPT !.workspace_x = results.xs, !.workspace_y = results.ys,
                               !.workspace_area = results.area2,
                               !.workspace_poly = results.hull_lines]),
          get_workspace(CurrentModel(d), d.sim_resolution))

\* on_param_change; raised is whether update_params raised, which ends the
\* handler there
on_param_change(d) ==
    LET new_params == [k \in DOMAIN d.dynamic_sliders |-> d.dynamic_sliders[k].val]
        r == update_params(CurrentModel(d), new_params)
        d1 == SetCurrentModel(d, r.model)
    IN  IF r.raised THEN [d |-> d1, raised |-> TRUE]
        ELSE [d |-> Apply(redraw, Apply(calc_workspace, d1)), raised |-> FALSE]

\* Slider.set_val on one of the static sliders: the value is stored as given
\* and the callback registered with on_changed runs
set_val(d, slider, val) ==
    LET changed(d1) ==
          CASE slider \in {"slider_theta1", "slider_theta2"} -> on_slider_change(d1)
            [] slider \in {"slider_offset1", "slider_offset2"} -> on_offset_change(d1)
            [] slider = "slider_res" -> on_res_change(d1, val)
    IN  Apply(changed, [d EXCEPT ![slider].val = val])

\* Slider.reset
reset(d, slider) ==
    IF d[slider].val # d[slider].valinit THEN set_val(d, slider, d[slider].valinit) ELSE d

toggle_offset_controls(d, visible) ==
    [d EXCEPT !.slider_offset1.active = visible, !.slider_offset2.active = visible]

\* the sliders of the current model's parameters, each at the value the
\* parameter entry holds
update_dynamic_sliders(d) ==
    LET parameters == CurrentModel(d).parameters
    IN  [d EXCEPT !.dynamic_sliders =
            [label \in DOMAIN parameters |->
                add_slider(parameters[label][2], parameters[label][3], parameters[label][1])]]

\* a dict without one key
DictWithout(dict, key) == [k \in DOMAIN dict \ {key} |-> dict[k]]

\* "Five-Bar" in label
IsFiveBar(label) == label \in {"Five-Bar Traseira", "Five-Bar Dianteira"}

\* change_model, the block under "if class_name in self.optimized_configs":
\* the offsets popped and applied, update_params, the parameter entries
\* rewritten; raised is whether update_params raised
load_optimized(d) ==
    IF CurrentModel(d).kind \notin DOMAIN d.optimized_configs
    THEN [d |-> d, raised |-> FALSE]
    ELSE
    LET p0 == d.optimized_configs[CurrentModel(d).kind].parameters
        d1 == IF "Offset_S1_Deg" \in DOMAIN p0
              THEN Apply(LAMBDA s1 : SetCurrentModel(s1, [CurrentModel(s1) EXCEPT
                                        !.offset_t1 = radians(p0["Offset_S1_Deg"])]),
                         set_val(d, "slider_offset1", p0["Offset_S1_Deg"]))
              ELSE d
        p1 == DictWithout(p0, "Offset_S1_Deg")
        d2 == IF "Offset_S2_Deg" \in DOMAIN p1
              THEN Apply(LAMBDA s2 : SetCurrentModel(s2, [CurrentModel(s2) EXCEPT
                                        !.offset_t2 = radians(p1["Offset_S2_Deg"])]),
                         Apply(LAMBDA s1 : set_val(s1, "slider_offset2", p1["Offset_S2_Deg"]),
                               d1))
              ELSE d1
        best_params == DictWithout(p1, "Offset_S2_Deg")
        \* update_params, then the parameter entries of the keys it was given
        loaded(s2) ==
            LET r  == update_params(CurrentModel(s2), best_params)
                parameters == r.model.parameters
            IN  IF r.raised THEN [d |-> SetCurrentModel(s2, r.model), raised |-> TRUE]
                ELSE [d |-> SetCurrentModel(s2, [r.model EXCEPT !.parameters =
                                [key \in DOMAIN parameters |->
                                    IF key \in DOMAIN best_params
                                    THEN <<best_params[key], parameters[key][2],
                                           parameters[key][3]>>
                                    ELSE parameters[key]]]),
                      raised |-> FALSE]
    IN  Apply(loaded, d2)

change_model(d, label) ==
    LET d1 == [d EXCEPT !.current = label]
        d2 == Apply(LAMBDA s : reset(s, "slider_offset1"), d1)
        d3 == Apply(LAMBDA s : reset(s, "slider_offset2"), d2)
        d4 == Apply(LAMBDA s : set_val(s, "slider_theta1", start_s1_angle(CurrentModel(s))), d3)
        d5 == Apply(LAMBDA s : set_val(s, "slider_theta2", start_s2_angle(CurrentModel(s))), d4)
        d6 == Apply(LAMBDA s : [s EXCEPT !.workspace_x = <<>>, !.workspace_y = <<>>,
                                         !.workspace_poly = None, !.workspace_area = 0], d5)
        \* the interface update, unless update_params raised
        finish(loaded) ==
            IF loaded.raised THEN loaded
            ELSE [d |-> Apply(redraw, Apply(calc_workspace, Apply(update_dynamic_sliders,
                            toggle_offset_controls(loaded.d, IsFiveBar(label))))),
                  raised |-> FALSE]
    IN  Apply(finish, Apply(load_optimized, d6))

\* RobotDashboard.__init__ with the optimized configurations that
\* load_config_file returns
RobotDashboard(optimized_configs) ==
    LET d0 == [models |-> DashboardModels, current |-> "Serial",
               optimized_configs |-> optimized_configs,
               theta1 |-> 150, theta2 |-> 45, sim_resolution |-> 45,
               dynamic_sliders |-> EmptyDict,
               workspace_x |-> <<>>, workspace_y |-> <<>>,
               workspace_area |-> 0, workspace_poly |-> None,
               slider_theta1 |-> add_slider(0, 180, 90),
               slider_theta2 |-> add_slider(0, 180, 90),
               slider_offset1 |-> add_slider(-90, 90, 0),
               slider_offset2 |-> add_slider(-90, 90, 0),
               slider_res |-> add_slider(20, 180, 45)]
        d1 == Apply(redraw, Apply(update_dynamic_sliders, toggle_offset_controls(d0, FALSE)))
    IN  Apply(LAMBDA s : change_model(s, "Serial"), d1).d

(***************************************************************************)
(* Specification of the dashboard under the user's events.  The session    *)
(* starts from the constructed dashboard, with no best_legs_config.json or *)
(* with one that holds lengths and offsets for a five-bar and for the      *)
(* serial variant.  The user clicks a radio button, drags a servo, offset, *)
(* resolution or parameter slider to a value of its grid other than the    *)
(* value it shows, or clicks the workspace button; a slider that is not    *)
(* active ignores the drag.  Sessions of up to MaxEvents events are        *)
(* followed.                                                               *)
(***************************************************************************)
MaxEvents == 2
ThetaDragChoices == {45}
OffsetDragChoices == {30}
ParamDragChoices == {60}
ResDragChoices == {20}

BestLegsConfig ==
    [class_name \in {"FiveBarRearLeg", "SerialLeg"} |->
        IF class_name = "SerialLeg"
        THEN [parameters |->
                [k \in {"L1 (S1->Knee)", "L2 (Knee->Foot)", "Offset_S1_Deg"} |->
                    CASE k = "L1 (S1->Knee)" -> 60
                      [] k = "L2 (Knee->Foot)" -> 90
                      [] k = "Offset_S1_Deg" -> 15]]
        ELSE [parameters |->
                [k \in {"L1 (S1->A)", "L2 (A->B)", "L3 (S2->C)", "L4 (B->C)",
                        "L5 (Ext. C)", "Offset_S1_Deg", "Offset_S2_Deg"} |->
                    CASE k = "L1 (S1->A)" -> 40
                      [] k = "L2 (A->B)" -> 50
                      [] k = "L3 (S2->C)" -> 45
                      [] k = "L4 (B->C)" -> 50
                      [] k = "L5 (Ext. C)" -> 90
                      [] k = "Offset_S1_Deg" -> 10
                      [] k = "Offset_S2_Deg" -> -5]]]
ConfigChoices == {EmptyDict, BestLegsConfig}

\* the parameter slider the user drags: the first one of the panel
DraggedParams(m) == {ParamAttrs(m.kind)[1][1]}

\* the widget takes the drag: it is active, and the value on its grid is
\* not the value it holds
UserDrag(s, val) ==
    /\ s.active
    /\ val = SliderValue(s.valmin, s.valmax, s.valstep, val)
    /\ val # s.val

\* the stored (points, area, boundary)
StoredWorkspace ==
    <<dash.workspace_x, dash.workspace_y, dash.workspace_area, dash.workspace_poly>>

\* a handler returns: dash_call keeps its name, whether it raised, and the
\* stored workspace it found
DashReturn(d, handler, raised) ==
    /\ dash_events < MaxEvents
    /\ dash' = d
    /\ dash_call' = [handler |-> handler, raised |-> raised, found |-> StoredWorkspace]
    /\ dash_events' = dash_events + 1
    /\ UNCHANGED <<circle_vars, hull_vars, ell_vars, leg_vars, seg_vars, lim_vars>>

DashInit ==
    /\ CircleIdle /\ HullIdle /\ EllipseIdle /\ LegIdle /\ SegIdle /\ LimIdle
    /\ \E optimized_configs \in ConfigChoices : dash = RobotDashboard(optimized_configs)
    /\ dash_call = [handler |-> "__init__", raised |-> FALSE,
                    found |-> <<<<>>, <<>>, 0, None>>]
    /\ dash_events = 0

DashChangeModel(label) ==
    /\ dash_events < MaxEvents
    /\ \E r \in {change_model(dash, label)} : DashReturn(r.d, "change_model", r.raised)

DashOnSliderChange(slider, val) ==
    /\ UserDrag(dash[slider], val)
    /\ DashReturn(set_val(dash, slider, val), "on_slider_change", FALSE)

DashOnOffsetChange(slider, val) ==
    /\ UserDrag(dash[slider], val)
    /\ DashReturn(set_val(dash, slider, val), "on_offset_change", FALSE)

DashOnResChange(val) ==
    /\ UserDrag(dash.slider_res, val)
    /\ DashReturn(set_val(dash, "slider_res", val), "on_res_change", FALSE)

DashOnParamChange(label, val) ==
    /\ label \in DOMAIN dash.dynamic_sliders
    /\ UserDrag(dash.dynamic_sliders[label], val)
    /\ dash_events < MaxEvents
    /\ \E r \in {on_param_change([dash EXCEPT !.dynamic_sliders[label].val = val])} :
          DashReturn(r.d, "on_param_change", r.raised)

\* a click on the workspace button
DashCalcWorkspace ==
    DashReturn(calc_workspace(dash), "calc_workspace", FALSE)

DashNext ==
    \/ \E label \in DOMAIN dash.models : DashChangeModel(label)
    \/ \E slider \in {"slider_theta1", "slider_theta2"} : \E val \in ThetaDragChoices :
          DashOnSliderChange(slider, val)
    \/ \E slider \in {"slider_offset1", "slider_offset2"} : \E val \in OffsetDragChoices :
          DashOnOffsetChange(slider, val)
    \/ \E val \in ResDragChoices : DashOnResChange(val)
    \/ \E label \in DraggedParams(CurrentModel(dash)) : \E val \in ParamDragChoices :
          DashOnParamChange(label, val)
    \/ DashCalcWorkspace

SpecDashboard == DashInit /\ [][DashNext]_vars

\* what get_workspace returns for a model at a resolution, as the dashboard
\* stores it
WorkspaceOf(m, resolution) ==
    LET results == get_workspace(m, resolution)
    IN  <<results.xs, results.ys, results.area2, results.hull_lines>>

DashReturned(handlers) ==
    dash_call # Idle /\ dash_call.handler \in handlers /\ ~dash_call.raised

ConfigOffset(key) ==
    LET class_name == CurrentModel(dash).kind
    IN  IF class_name \in DOMAIN dash.optimized_configs
        THEN LET parameters == dash.optimized_configs[class_name].parameters
             IN  IF key \in DOMAIN parameters THEN radians(parameters[key]) ELSE 0
        ELSE 0

\* the current model as it was when the handler computed the workspace: for
\* a variant without offset controls, change_model computes with the
\* offsets of the optimized configuration and zeroes them afterwards
ModelWhenComputed ==
    IF dash_call.handler = "change_model" /\ ~IsFiveBar(dash.current)
    THEN [CurrentModel(dash) EXCEPT !.offset_t1 = ConfigOffset("Offset_S1_Deg"),
                                    !.offset_t2 = ConfigOffset("Offset_S2_Deg")]
    ELSE CurrentModel(dash)

SliderHandlers == {"__init__", "change_model", "on_param_change"}
\* the parameter slider of label key shows the link length the current
\* model holds for it
SliderShowsLength(k) ==
    LET m     == CurrentModel(dash)
        attrs == ParamAttrs(m.kind)
    IN  /\ attrs[k][1] \in DOMAIN dash.dynamic_sliders
        /\ dash.dynamic_sliders[attrs[k][1]].val = m.lengths[attrs[k][2]]

\* C26: after any sequence of the dashboard events change_model and
\* on_param_change, every parameter slider shown for the current model
\* holds the same value as the corresponding internal link length of that
\* model (the lengths used by forward_kinematics and get_workspace), also
\* after editing a parameter, switching to another model and switching
\* back.
C26_SlidersShowLengths ==
    DashReturned(SliderHandlers) =>
        /\ DOMAIN dash.dynamic_sliders = RequiredKeys(CurrentModel(dash).kind)
        /\ \A k \in 1..Len(ParamAttrs(CurrentModel(dash).kind)) : SliderShowsLength(k)

\* change_model has rebuilt the sliders of a model whose length was edited
\* before: the slider shows the parameter entry, the model holds the edit
StaleSliderAfterChangeModel ==
    /\ DashReturned({"change_model"})
    /\ \E k \in 1..Len(ParamAttrs(CurrentModel(dash).kind)) :
          LET m     == CurrentModel(dash)
              attrs == ParamAttrs(m.kind)
          IN  /\ dash.dynamic_sliders[attrs[k][1]].val = m.parameters[attrs[k][1]][1]
              /\ m.lengths[attrs[k][2]] # m.parameters[attrs[k][1]][1]
              /\ StoredWorkspace = WorkspaceOf(m, dash.sim_resolution)

(***************************************************************************)
(* Specification of the dashboard under model switches and offset drags    *)
(* alone, from the constructed dashboard: the user clicks a radio button   *)
(* or drags an offset slider that is active.  Sessions of up to            *)
(* MaxSwitches events are followed.                                        *)
(***************************************************************************)
MaxSwitches == 4

OffsetsReturn(d, handler, raised) ==
    /\ dash_events < MaxSwitches
    /\ dash' = d
    /\ dash_call' = [handler |-> handler, raised |-> raised, found |-> StoredWorkspace]
    /\ dash_events' = dash_events + 1
    /\ UNCHANGED <<circle_vars, hull_vars, ell_vars, leg_vars, seg_vars, lim_vars>>

OffsetsChangeModel(label) ==
    /\ dash_events < MaxSwitches
    /\ \E r \in {change_model(dash, label)} : OffsetsReturn(r.d, "change_model", r.raised)

OffsetsOnOffsetChange(slider, val) ==
    /\ UserDrag(dash[slider], val)
    /\ OffsetsReturn(set_val(dash, slider, val), "on_offset_change", FALSE)

OffsetsNext ==
    \/ \E label \in DOMAIN dash.models : OffsetsChangeModel(label)
    \/ \E slider \in {"slider_offset1", "slider_offset2"} : \E val \in OffsetDragChoices :
          OffsetsOnOffsetChange(slider, val)

SpecOffsets == DashInit /\ [][OffsetsNext]_vars

\* C27: after change_model(label) returns, for any prior sequence of
\* model switches and offset changes, the selected model's calibration
\* offsets equal the values of the (reset) offset sliders, and are 0 for
\* models whose offset controls are hidden; the workspace computed inside
\* change_model uses those same offsets, so no offset set earlier on a
\* model survives a switch away and back.
C27_OffsetsFollowSliders ==
    DashReturned({"change_model"}) =>
        LET m == CurrentModel(dash)
        IN  /\ dash.slider_offset1.active = IsFiveBar(dash.current)
            /\ dash.slider_offset1.active =>
                  /\ m.offset_t1 = radians(dash.slider_offset1.val)
                  /\ m.offset_t2 = radians(dash.slider_offset2.val)
            /\ ~dash.slider_offset1.active => (m.offset_t1 = 0 /\ m.offset_t2 = 0)
            /\ StoredWorkspace = WorkspaceOf(m, dash.sim_resolution)

\* a five-bar was selected again with no optimized configuration loaded:
\* both offset sliders are at their reset value 0, the model still holds
\* the offset dragged before the switch away, and the stored workspace is
\* the one of that offset
OffsetSurvivesSwitch ==
    /\ DashReturned({"change_model"})
    /\ dash.optimized_configs = EmptyDict
    /\ IsFiveBar(dash.current)
    /\ dash.slider_offset1.val = 0 /\ dash.slider_offset2.val = 0
    /\ CurrentModel(dash).offset_t1 # 0
    /\ StoredWorkspace = WorkspaceOf(CurrentModel(dash), dash.sim_resolution)
\* change_model on a variant without offset controls whose optimized
\* configuration holds an offset: the workspace was computed with that
\* offset, the model's offsets are 0 afterwards
HiddenOffsetInWorkspace ==
    /\ DashReturned({"change_model"})
    /\ ~IsFiveBar(dash.current)
    /\ CurrentModel(dash).offset_t1 = 0 /\ CurrentModel(dash).offset_t2 = 0
    /\ StoredWorkspace # WorkspaceOf(CurrentModel(dash), dash.sim_resolution)
    /\ StoredWorkspace = WorkspaceOf(ModelWhenComputed, dash.sim_resolution)

\* C28: a failed update_params leaves the model unchanged: if the mapping
\* lacks a required key, then after the failure every internal link length
\* of the model still has the value it had before the call (no partial
\* update of the lengths assigned before the missing key).
C28_FailedUpdateLeavesLengths ==
    [][(leg_call = Pending /\ leg_call' # Pending /\ leg_call' # Idle
            /\ leg_call'.op = "update_params" /\ leg_call'.raised) =>
          leg'.lengths = leg.lengths
      ]_vars

\* the position, in the order of assignment, of the first key the mapping lacks
FirstMissing(attrs, params) ==
    CHOOSE k \in 1..Len(attrs) :
        /\ attrs[k][1] \notin DOMAIN params
        /\ \A j \in 1..(k - 1) : attrs[j][1] \in DOMAIN params
\* update_params has raised on a mapping lacking a key that is not the
\* first one read: a length read before the missing key holds the
\* mapping's value, which is not the value of construction
PartialUpdate ==
    /\ LegCalled("update_params")
    /\ leg_call.raised
    /\ leg_call.params # EmptyDict
    /\ LET attrs == ParamAttrs(leg.kind)
           k == FirstMissing(attrs, leg_call.params)
       IN  /\ k > 1
           /\ \A j \in 1..(k - 1) : leg.lengths[attrs[j][2]] = leg_call.params[attrs[j][1]]
           /\ \E j \in 1..(k - 1) :
                 leg.lengths[attrs[j][2]] # NewLeg(leg.kind).lengths[attrs[j][2]]

====
